---------------------------- MODULE Spec2Model ----------------------------
(***************************************************************************)
(* A model of asciidoc-linter: the lint engine (linter.py, parser.py,      *)
(* cli.py, reporter.py) and the rules it runs (rules/*.py).                *)
(*                                                                         *)
(* Text is modelled by TLA+ strings; a character is a string of length 1.  *)
(* A Python list is a sequence, a dict is a function whose DOMAIN is the   *)
(* set of its keys, None is the string "None".  Python line numbers are    *)
(* 0-based (enumerate), sequences here are 1-based: document[line_num]     *)
(* in the source is document[line_num + 1] here.                           *)
(***************************************************************************)
EXTENDS Integers, Sequences, FiniteSets, TLC

VARIABLES
    rule,                    \* class of the rule instance under direct use
    ub_open_blocks,          \* UnterminatedBlockRule.open_blocks
    bs_open_blocks,          \* BlockSpacingRule.open_blocks
    consecutive_empty_lines, \* WhitespaceRule.consecutive_empty_lines
    call,                    \* the call in progress or just returned, with its arguments
    result,                  \* what that call returned
    reporter,                \* class of AsciiDocLinter.reporter
    pc,                      \* cli.main: "idle" (not running), "loop" or "done" (returned)
    main_i,                  \* cli.main: files of parsed_args.files the loop has passed
    exit_code,               \* cli.main: the local exit_code
    stdout,                  \* what main printed to sys.stdout
    stderr,                  \* what main printed to sys.stderr
    lint_calls               \* the files whose content main handed to linter.lint

mainVars == <<reporter, pc, main_i, exit_code, stdout, stderr, lint_calls>>

vars == <<rule, ub_open_blocks, bs_open_blocks, consecutive_empty_lines, call, result, mainVars>>

None == "None"

(***************************************************************************)
(* Bounds of the model.                                                    *)
(***************************************************************************)
MaxBlockLines == 4
MaxWhitespaceLines == 4
MaxEmptyLines == 4
MaxContentLines == 2
MaxFiles == 3
MaxTableLines == 5
MaxHeadingLines == 4
MaxReportFindings == 4
MaxAttributes == 3

(***************************************************************************)
(* Python str methods, on TLA+ strings.                                    *)
(***************************************************************************)
Char(s, i) == SubSeq(s, i, i)

isspace(c) == c \in {" ", "\t", "\n", "\r"}

RECURSIVE lstrip(_)
lstrip(s) == IF Len(s) > 0 /\ isspace(Char(s, 1)) THEN lstrip(SubSeq(s, 2, Len(s))) ELSE s

RECURSIVE rstrip(_)
rstrip(s) == IF Len(s) > 0 /\ isspace(Char(s, Len(s))) THEN rstrip(SubSeq(s, 1, Len(s) - 1)) ELSE s

strip(s) == rstrip(lstrip(s))

startswith(s, prefix) == Len(s) >= Len(prefix) /\ SubSeq(s, 1, Len(prefix)) = prefix

\* c in s, for a single character c
contains(s, c) == \E i \in 1..Len(s) : Char(s, i) = c

\* c * n
RECURSIVE repeat(_, _)
repeat(c, n) == IF n <= 0 THEN "" ELSE c \o repeat(c, n - 1)

\* the number of leading characters of s equal to c
RECURSIVE count_leading(_, _)
count_leading(s, c) ==
    IF Len(s) > 0 /\ Char(s, 1) = c THEN 1 + count_leading(SubSeq(s, 2, Len(s)), c) ELSE 0

\* the 1-based index of the first c in s, 0 when there is none
find(s, c) ==
    IF contains(s, c)
    THEN CHOOSE i \in 1..Len(s) : Char(s, i) = c /\ \A j \in 1..(i - 1) : Char(s, j) # c
    ELSE 0

\* str.splitlines for text whose only line boundary is "\n": no empty last line
RECURSIVE splitlines(_)
splitlines(s) ==
    IF s = "" THEN <<>>
    ELSE LET i == find(s, "\n") IN
         IF i = 0 THEN <<s>>
         ELSE <<SubSeq(s, 1, i - 1)>> \o splitlines(SubSeq(s, i + 1, Len(s)))

\* s.strip(chars): leading and trailing characters of the set chars removed
RECURSIVE strip_chars(_, _)
strip_chars(s, chars) ==
    IF Len(s) > 0 /\ Char(s, 1) \in chars THEN strip_chars(SubSeq(s, 2, Len(s)), chars)
    ELSE IF Len(s) > 0 /\ Char(s, Len(s)) \in chars
         THEN strip_chars(SubSeq(s, 1, Len(s) - 1), chars)
         ELSE s

\* the least index >= start at which sub occurs in s, 0 when there is none
find_str(s, sub, start) ==
    LET at == {i \in start..(Len(s) - Len(sub) + 1) : SubSeq(s, i, i + Len(sub) - 1) = sub}
    IN IF at = {} THEN 0 ELSE CHOOSE i \in at : \A j \in at : i <= j

\* the greatest index of character c in s, 0 when there is none
rfind(s, c) ==
    LET at == {i \in 1..Len(s) : Char(s, i) = c}
    IN IF at = {} THEN 0 ELSE CHOOSE i \in at : \A j \in at : i >= j

islower(c) ==
    c \in {"a", "b", "c", "d", "e", "f", "g", "h", "i", "j", "k", "l", "m",
           "n", "o", "p", "q", "r", "s", "t", "u", "v", "w", "x", "y", "z"}

(***************************************************************************)
(* Python dict operations.                                                 *)
(***************************************************************************)
EmptyDict == <<>>

dict_set(d, k, v) == [x \in (DOMAIN d) \cup {k} |-> IF x = k THEN v ELSE d[x]]

dict_del(d, k) == [x \in (DOMAIN d) \ {k} |-> d[x]]

(***************************************************************************)
(* rules/base.py: the finding model.                                       *)
(***************************************************************************)
ERROR == "error"
WARNING == "warning"
INFO == "info"

Position(line, column) == [line |-> line, column |-> column]

Finding(rule_id, position, message, severity, context) ==
    [rule_id |-> rule_id, position |-> position, message |-> message,
     severity |-> severity, context |-> context]

(***************************************************************************)
(* A document handed to Rule.check is a list whose elements are all str    *)
(* (a list of lines, as the rule tests pass it) or all parser.Header (what *)
(* AsciiDocParser.parse returns).                                          *)
(***************************************************************************)
StrDocument(lines) == [of |-> "str", items |-> lines]

isinstance_str(document) == document.of = "str"

(***************************************************************************)
(* rules/heading_rules.py: HeadingFormatRule                               *)
(***************************************************************************)
\* the case of the text is looked at only when the space is there
HeadingFormatRule_check_line_space_first(line, line_num) ==
    IF startswith(line, "=")
    THEN LET level == count_leading(line, "=")
             rest == SubSeq(line, level + 1, Len(line))
             text == lstrip(rest)
             space == SubSeq(rest, 1, Len(rest) - Len(text))
         IN IF space = ""
            THEN <<Finding("HEAD002", Position(line_num + 1, None),
                           "Missing space after " \o repeat("=", level), ERROR, line)>>
            ELSE IF text # "" /\ islower(Char(text, 1))
                 THEN <<Finding("HEAD002", Position(line_num + 1, None),
                                "Heading should start with uppercase letter", WARNING, line)>>
                 ELSE <<>>
    ELSE <<>>

\* heading_pattern ^(=+)(\s*)(.*)$ : equals is the leading run of "=", space the
\* whitespace after it, text the rest of the line.
HeadingFormatRule_check_line(line, line_num) ==
    IF startswith(line, "=")
    THEN LET level == count_leading(line, "=")
             rest == SubSeq(line, level + 1, Len(line))
             text == lstrip(rest)
             space == SubSeq(rest, 1, Len(rest) - Len(text))
             first_word == strip(text)
         IN (IF space = ""
             THEN <<Finding("HEAD002", Position(line_num + 1, None),
                            "Missing space after " \o repeat("=", level), ERROR, line)>>
             ELSE <<>>)
            \o
            (IF text # "" /\ first_word # "" /\ islower(Char(first_word, 1))
             THEN <<Finding("HEAD002", Position(line_num + 1, None),
                            "Heading should start with uppercase letter", WARNING, line)>>
             ELSE <<>>)
    ELSE <<>>

RECURSIVE HeadingFormatRule_loop(_, _, _)
HeadingFormatRule_loop(document, line_num, findings) ==
    IF line_num >= Len(document.items) THEN findings
    ELSE HeadingFormatRule_loop(document, line_num + 1,
             IF isinstance_str(document)
             THEN findings \o HeadingFormatRule_check_line(document.items[line_num + 1], line_num)
             ELSE findings)

HeadingFormatRule_check(document) == HeadingFormatRule_loop(document, 0, <<>>)

(***************************************************************************)
(* rules/heading_rules.py: HeadingHierarchyRule                            *)
(***************************************************************************)
\* heading_pattern ^(=+)\s : the leading run of "=" is followed by whitespace
hierarchy_match(line) ==
    LET n == count_leading(line, "=") IN
    n >= 1 /\ Len(line) > n /\ isspace(Char(line, n + 1))

\* get_heading_levels: (level, line_num, line) of every str line the pattern matches
RECURSIVE get_heading_levels(_, _)
get_heading_levels(document, line_num) ==
    IF line_num >= Len(document.items) THEN <<>>
    ELSE (IF isinstance_str(document) /\ hierarchy_match(document.items[line_num + 1])
          THEN <<[level |-> count_leading(document.items[line_num + 1], "="),
                  line_num |-> line_num, line |-> document.items[line_num + 1]]>>
          ELSE <<>>)
         \o get_heading_levels(document, line_num + 1)

\* every heading is compared with the first one: current_level is never updated
RECURSIVE HeadingHierarchyRule_loop_first_level(_, _, _, _)
HeadingHierarchyRule_loop_first_level(headings, k, current_level, findings) ==
    IF k > Len(headings) THEN findings
    ELSE HeadingHierarchyRule_loop_first_level(headings, k + 1, current_level,
             IF headings[k].level > current_level + 1
             THEN Append(findings,
                         Finding("HEAD001", Position(headings[k].line_num + 1, None),
                                 "Heading level skipped: found h" \o ToString(headings[k].level)
                                     \o " after h" \o ToString(current_level),
                                 ERROR, headings[k].line))
             ELSE findings)

\* the loop over headings[1:], from the k-th heading on (1-based)
RECURSIVE HeadingHierarchyRule_loop(_, _, _, _)
HeadingHierarchyRule_loop(headings, k, current_level, findings) ==
    IF k > Len(headings) THEN findings
    ELSE HeadingHierarchyRule_loop(headings, k + 1, headings[k].level,
             IF headings[k].level > current_level + 1
             THEN Append(findings,
                         Finding("HEAD001", Position(headings[k].line_num + 1, None),
                                 "Heading level skipped: found h" \o ToString(headings[k].level)
                                     \o " after h" \o ToString(current_level),
                                 ERROR, headings[k].line))
             ELSE findings)

HeadingHierarchyRule_check(document) ==
    LET headings == get_heading_levels(document, 0) IN
    IF headings = <<>> THEN <<>>
    ELSE HeadingHierarchyRule_loop(headings, 2, headings[1].level, <<>>)

(***************************************************************************)
(* rules/heading_rules.py: MultipleTopLevelHeadingsRule                    *)
(***************************************************************************)
\* heading_pattern ^=\s
top_level_match(line) == Len(line) >= 2 /\ Char(line, 1) = "=" /\ isspace(Char(line, 2))

\* every level-1 heading becomes the one the next finding cites
RECURSIVE MultipleTopLevelHeadingsRule_loop_latest(_, _, _, _)
MultipleTopLevelHeadingsRule_loop_latest(document, line_num, first_top_level, findings) ==
    IF line_num >= Len(document.items) THEN findings
    ELSE LET line == document.items[line_num + 1] IN
         IF isinstance_str(document) /\ top_level_match(line)
         THEN MultipleTopLevelHeadingsRule_loop_latest(document, line_num + 1,
                  <<ToString(line_num + 1), strip(line)>>,
                  IF first_top_level = <<>> THEN findings
                  ELSE Append(findings,
                              Finding("HEAD003", Position(line_num + 1, None),
                                      "Multiple top-level headings found. First heading at line "
                                          \o first_top_level[1] \o ": '" \o first_top_level[2] \o "'",
                                      ERROR, line)))
         ELSE MultipleTopLevelHeadingsRule_loop_latest(document, line_num + 1, first_top_level,
                                                       findings)

\* first_top_level is <<>> for None, <<line number, stripped line>> once set
RECURSIVE MultipleTopLevelHeadingsRule_loop(_, _, _, _)
MultipleTopLevelHeadingsRule_loop(document, line_num, first_top_level, findings) ==
    IF line_num >= Len(document.items) THEN findings
    ELSE LET line == document.items[line_num + 1] IN
         IF isinstance_str(document) /\ top_level_match(line)
         THEN IF first_top_level = <<>>
              THEN MultipleTopLevelHeadingsRule_loop(document, line_num + 1,
                       <<ToString(line_num + 1), strip(line)>>, findings)
              ELSE MultipleTopLevelHeadingsRule_loop(document, line_num + 1, first_top_level,
                       Append(findings,
                              Finding("HEAD003", Position(line_num + 1, None),
                                      "Multiple top-level headings found. First heading at line "
                                          \o first_top_level[1] \o ": '" \o first_top_level[2] \o "'",
                                      ERROR, line)))
         ELSE MultipleTopLevelHeadingsRule_loop(document, line_num + 1, first_top_level, findings)

MultipleTopLevelHeadingsRule_check(document) ==
    MultipleTopLevelHeadingsRule_loop(document, 0, <<>>, <<>>)

(***************************************************************************)
(* rules/block_rules.py: UnterminatedBlockRule                             *)
(***************************************************************************)
block_markers ==
    ("----" :> "listing block") @@ ("====" :> "example block") @@
    ("****" :> "sidebar block") @@ ("...." :> "literal block") @@
    ("____" :> "quote block") @@ ("|===" :> "table block") @@
    ("////" :> "comment block") @@ ("++++" :> "passthrough block")

\* A look-ahead that starts at the delimiter itself instead of the line after it.
is_terminated_from_self(stripped_line, line_num, document) ==
    \E i \in line_num..(Len(document) - 1) : strip(document[i + 1]) = stripped_line

\* The look-ahead loop of check_line: some line after line_num strips to the marker.
is_terminated(stripped_line, line_num, document) ==
    \E i \in (line_num + 1)..(Len(document) - 1) : strip(document[i + 1]) = stripped_line

\* A check_line whose closing branch empties the whole map instead of deleting one key.
UnterminatedBlockRule_check_line_clear(line, line_num, document, open_blocks) ==
    LET stripped_line == strip(line) IN
    IF stripped_line \in DOMAIN block_markers
    THEN IF stripped_line \in DOMAIN open_blocks
         THEN [findings |-> <<>>, open_blocks |-> EmptyDict]
         ELSE [findings |->
                   IF ~is_terminated(stripped_line, line_num, document)
                   THEN <<Finding("BLOCK001", Position(line_num + 1, None),
                                  "Unterminated " \o block_markers[stripped_line] \o " starting",
                                  ERROR, line)>>
                   ELSE <<>>,
               open_blocks |-> dict_set(open_blocks, stripped_line, line_num)]
    ELSE [findings |-> <<>>, open_blocks |-> open_blocks]

UnterminatedBlockRule_check_line(line, line_num, document, open_blocks) ==
    LET stripped_line == strip(line) IN
    IF stripped_line \in DOMAIN block_markers
    THEN IF stripped_line \in DOMAIN open_blocks
         THEN [findings |-> <<>>, open_blocks |-> dict_del(open_blocks, stripped_line)]
         ELSE [findings |->
                   IF ~is_terminated(stripped_line, line_num, document)
                   THEN <<Finding("BLOCK001", Position(line_num + 1, None),
                                  "Unterminated " \o block_markers[stripped_line] \o " starting",
                                  ERROR, line)>>
                   ELSE <<>>,
               open_blocks |-> dict_set(open_blocks, stripped_line, line_num)]
    ELSE [findings |-> <<>>, open_blocks |-> open_blocks]

\* A loop that hands every line the map it started with: no delimiter ever closes.
RECURSIVE UnterminatedBlockRule_loop_never_closing(_, _, _, _)
UnterminatedBlockRule_loop_never_closing(document, line_num, open_blocks, findings) ==
    IF line_num >= Len(document.items)
    THEN [findings |-> findings, open_blocks |-> open_blocks]
    ELSE LET r == UnterminatedBlockRule_check_line(document.items[line_num + 1], line_num,
                                                   document.items, open_blocks)
         IN UnterminatedBlockRule_loop_never_closing(document, line_num + 1, open_blocks,
                                                     findings \o r.findings)

\* The for loop of check, from line_num on: rule state and findings threaded through.
RECURSIVE UnterminatedBlockRule_loop(_, _, _, _)
UnterminatedBlockRule_loop(document, line_num, open_blocks, findings) ==
    IF line_num >= Len(document.items)
    THEN [findings |-> findings, open_blocks |-> open_blocks]
    ELSE IF isinstance_str(document)
         THEN LET r == UnterminatedBlockRule_check_line(document.items[line_num + 1], line_num,
                                                        document.items, open_blocks)
              IN UnterminatedBlockRule_loop(document, line_num + 1, r.open_blocks,
                                            findings \o r.findings)
         ELSE UnterminatedBlockRule_loop(document, line_num + 1, open_blocks, findings)

\* A check that keeps the map the last call left behind.
UnterminatedBlockRule_no_reset(open_blocks) == open_blocks

\* self.open_blocks = {} at the start of check
UnterminatedBlockRule_reset(open_blocks) == EmptyDict

UnterminatedBlockRule_check(document, open_blocks) ==
    UnterminatedBlockRule_loop(document, 0, UnterminatedBlockRule_reset(open_blocks), <<>>)


(***************************************************************************)
(* rules/block_rules.py: BlockSpacingRule                                  *)
(***************************************************************************)
spacing_block_markers == {"----", "====", "****", "....", "____", "|===", "////", "++++"}

\* A check_line that takes the end of the document, after a closing delimiter,
\* for a line of text.
BlockSpacingRule_check_line_past_end(line, line_num, document, open_blocks) ==
    LET stripped_line == strip(line) IN
    IF stripped_line \in spacing_block_markers
    THEN IF stripped_line \in DOMAIN open_blocks
         THEN LET next_line == IF line_num + 1 < Len(document) THEN document[line_num + 2]
                               ELSE "text" IN
              [findings |->
                   IF strip(next_line) # "" /\ ~startswith(strip(next_line), "=")
                   THEN <<Finding("BLOCK002", Position(line_num + 2, None),
                                  "Block should be followed by a blank line",
                                  WARNING, next_line)>>
                   ELSE <<>>,
               open_blocks |-> dict_del(open_blocks, stripped_line)]
         ELSE LET prev_line == strip(document[line_num]) IN
              [findings |->
                   IF line_num > 0
                      /\ prev_line # "" /\ ~startswith(prev_line, "=")
                   THEN <<Finding("BLOCK002", Position(line_num + 1, None),
                                  "Block should be preceded by a blank line",
                                  WARNING, line)>>
                   ELSE <<>>,
               open_blocks |-> dict_set(open_blocks, stripped_line, line_num)]
    ELSE [findings |-> <<>>, open_blocks |-> open_blocks]

BlockSpacingRule_check_line(line, line_num, document, open_blocks) ==
    LET stripped_line == strip(line) IN
    IF stripped_line \in spacing_block_markers
    THEN IF stripped_line \in DOMAIN open_blocks
         THEN LET next_line == strip(document[line_num + 2]) IN
              [findings |->
                   IF line_num + 1 < Len(document)
                      /\ next_line # "" /\ ~startswith(next_line, "=")
                   THEN <<Finding("BLOCK002", Position(line_num + 2, None),
                                  "Block should be followed by a blank line",
                                  WARNING, document[line_num + 2])>>
                   ELSE <<>>,
               open_blocks |-> dict_del(open_blocks, stripped_line)]
         ELSE LET prev_line == strip(document[line_num]) IN
              [findings |->
                   IF line_num > 0
                      /\ prev_line # "" /\ ~startswith(prev_line, "=")
                   THEN <<Finding("BLOCK002", Position(line_num + 1, None),
                                  "Block should be preceded by a blank line",
                                  WARNING, line)>>
                   ELSE <<>>,
               open_blocks |-> dict_set(open_blocks, stripped_line, line_num)]
    ELSE [findings |-> <<>>, open_blocks |-> open_blocks]

RECURSIVE BlockSpacingRule_loop(_, _, _, _)
BlockSpacingRule_loop(document, line_num, open_blocks, findings) ==
    IF line_num >= Len(document.items)
    THEN [findings |-> findings, open_blocks |-> open_blocks]
    ELSE IF isinstance_str(document)
         THEN LET r == BlockSpacingRule_check_line(document.items[line_num + 1], line_num,
                                                   document.items, open_blocks)
              IN BlockSpacingRule_loop(document, line_num + 1, r.open_blocks,
                                       findings \o r.findings)
         ELSE BlockSpacingRule_loop(document, line_num + 1, open_blocks, findings)

\* self.open_blocks = {} at the start of check
BlockSpacingRule_reset(open_blocks) == EmptyDict

BlockSpacingRule_check(document, open_blocks) ==
    BlockSpacingRule_loop(document, 0, BlockSpacingRule_reset(open_blocks), <<>>)

(***************************************************************************)
(* rules/whitespace_rules.py: WhitespaceRule                               *)
(***************************************************************************)
\* get_line_content: line.content for an object that has it, str(line) otherwise
get_line_content(document, line) == IF isinstance_str(document) THEN line ELSE line.content

WS_Finding(line_number, message, line_content) ==
    Finding("WS001", Position(line_number + 1, None), message, WARNING, line_content)

admonition_markers == {"NOTE:", "TIP:", "IMPORTANT:", "WARNING:", "CAUTION:"}

\* check_line; context is the document's list, counter is self.consecutive_empty_lines
WhitespaceRule_check_line(document, line, line_number, counter) ==
    LET context == document.items
        line_content == get_line_content(document, line)
        blank == strip(line_content) = ""
        counter1 == IF blank THEN counter + 1 ELSE 0
        empty_lines ==
            IF blank /\ counter1 > 2
            THEN <<WS_Finding(line_number, "Too many consecutive empty lines", line_content)>>
            ELSE <<>>
        lstripped == lstrip(line_content)
        list_marker ==
            IF \E mk \in {"*", "-", "."} : startswith(lstripped, mk)
            THEN LET mk == Char(lstripped, 1)
                     content == SubSeq(lstripped, 2, Len(lstripped))
                 IN IF ~startswith(content, " ")
                    THEN <<WS_Finding(line_number,
                                      "Missing space after the marker '" \o mk \o "'",
                                      line_content)>>
                    ELSE <<>>
            ELSE <<>>
        trailing ==
            IF rstrip(line_content) # line_content
            THEN <<WS_Finding(line_number, "Line contains trailing whitespace", line_content)>>
            ELSE <<>>
        tabs ==
            IF contains(line_content, "\t")
            THEN <<WS_Finding(line_number, "Line contains tabs (use spaces instead)",
                              line_content)>>
            ELSE <<>>
        level == count_leading(line_content, "=")
        title ==
            IF startswith(line_content, "=")
            THEN (IF Len(line_content) > level /\ Char(line_content, level + 1) # " "
                  THEN <<WS_Finding(line_number, "Missing space after " \o repeat("=", level),
                                    line_content)>>
                  ELSE <<>>)
                 \o
                 (IF line_number > 0
                     /\ strip(get_line_content(document, context[line_number])) # ""
                  THEN <<WS_Finding(line_number,
                                    "Section title should be preceded by a blank line",
                                    line_content)>>
                  ELSE <<>>)
                 \o
                 (IF line_number < Len(context) - 1
                     /\ strip(get_line_content(document, context[line_number + 2])) # ""
                  THEN <<WS_Finding(line_number,
                                    "Section title should be followed by a blank line",
                                    line_content)>>
                  ELSE <<>>)
            ELSE <<>>
        admonition ==
            IF (\E mk \in admonition_markers : startswith(strip(line_content), mk))
               /\ line_number > 0
               /\ strip(get_line_content(document, context[line_number])) # ""
            THEN <<WS_Finding(line_number,
                              "Admonition block should be preceded by a blank line",
                              line_content)>>
            ELSE <<>>
    IN [findings |-> empty_lines \o list_marker \o trailing \o tabs \o title \o admonition,
        counter |-> counter1]

\* the counter of one line is not carried to the next
RECURSIVE WhitespaceRule_loop_counter_kept(_, _, _, _)
WhitespaceRule_loop_counter_kept(document, line_number, counter, findings) ==
    IF line_number >= Len(document.items)
    THEN [findings |-> findings, counter |-> counter]
    ELSE LET r == WhitespaceRule_check_line(document, document.items[line_number + 1],
                                            line_number, counter)
         IN WhitespaceRule_loop_counter_kept(document, line_number + 1, counter,
                                             findings \o r.findings)

\* The for loop of check, from line_number on.
RECURSIVE WhitespaceRule_loop(_, _, _, _)
WhitespaceRule_loop(document, line_number, counter, findings) ==
    IF line_number >= Len(document.items)
    THEN [findings |-> findings, counter |-> counter]
    ELSE LET r == WhitespaceRule_check_line(document, document.items[line_number + 1],
                                            line_number, counter)
         IN WhitespaceRule_loop(document, line_number + 1, r.counter, findings \o r.findings)

\* check does not touch self.consecutive_empty_lines before it scans
WhitespaceRule_check(document, counter) == WhitespaceRule_loop(document, 0, counter, <<>>)

(***************************************************************************)
(* rules/image_rules.py: ImageAttributesRule.  current_line and            *)
(* current_context are written by check_line before every use, so they    *)
(* are passed as arguments here instead of being kept as state.            *)
(***************************************************************************)
\* os.path.isfile: the image files present on the file system of the run
ExistingImageFiles == {"ok.png"}

isfile(path) == path \in ExistingImageFiles

\* The character loop of _parse_attributes: split at commas outside double quotes.
RECURSIVE split_attributes(_, _, _, _, _)
split_attributes(attr_string, i, current, in_quotes, parts) ==
    IF i > Len(attr_string)
    THEN IF current # "" THEN Append(parts, strip(current)) ELSE parts
    ELSE LET char == Char(attr_string, i) IN
         IF char = "\""
         THEN split_attributes(attr_string, i + 1, current \o char, ~in_quotes, parts)
         ELSE IF char = "," /\ ~in_quotes
              THEN split_attributes(attr_string, i + 1, "", in_quotes,
                                    Append(parts, strip(current)))
              ELSE split_attributes(attr_string, i + 1, current \o char, in_quotes, parts)

\* The loop over the parts, from the i-th part on (0-based i as in enumerate).
RECURSIVE process_parts(_, _, _)
process_parts(parts, i, attributes) ==
    IF i >= Len(parts) THEN attributes
    ELSE LET part == strip(parts[i + 1])
             eq == find(part, "=")
         IN process_parts(parts, i + 1,
                IF eq > 0
                THEN dict_set(attributes, strip(SubSeq(part, 1, eq - 1)),
                              strip_chars(strip(SubSeq(part, eq + 1, Len(part))), {"\""}))
                ELSE IF i = 0 THEN dict_set(attributes, "alt", part)
                     ELSE attributes)

ImageAttributesRule_parse_attributes(attr_string) ==
    LET stripped == strip_chars(attr_string, {"[", "]"}) IN
    IF stripped = "" THEN EmptyDict
    ELSE process_parts(split_attributes(stripped, 1, "", FALSE, <<>>), 0, EmptyDict)

ImageAttributesRule_check_image_path(path, current_line, current_context) ==
    IF \E scheme \in {"http://", "https://", "ftp://"} : startswith(path, scheme)
    THEN <<>>
    ELSE IF ~isfile(strip(path))
         THEN <<Finding("IMG001", Position(current_line + 1, None),
                        "Image file not found: " \o strip(path), WARNING, current_context)>>
         ELSE <<>>

ImageAttributesRule_check_attributes(attributes, image_type, path, current_line, current_context) ==
    (IF "alt" \notin DOMAIN attributes \/ attributes["alt"] = ""
     THEN <<Finding("IMG001", Position(current_line + 1, None),
                    "Missing alt text for " \o image_type \o " image: " \o path,
                    WARNING, current_context)>>
     ELSE IF Len(attributes["alt"]) < 5
          THEN <<Finding("IMG001", Position(current_line + 1, None),
                         "Alt text too short for " \o image_type \o " image: " \o path,
                         INFO, current_context)>>
          ELSE <<>>)
    \o
    (IF image_type = "block" /\ attributes = EmptyDict
     THEN <<Finding("IMG001", Position(current_line + 1, None),
                    "Missing required attributes for block image: " \o path,
                    WARNING, current_context)>>
     ELSE <<>>)

\* A match of  prefix([^[]+)(?:\[(.*)\])?  that starts at index at of s (the prefix
\* is known to be there): path is the run of non-"[" characters after the prefix,
\* attrs the text between the "[" after it and its closing "]" (the last "]" for
\* the greedy block pattern, the first for the lazy inline one), "" without them;
\* end is the index after the match.  ok is FALSE when the path would be empty.
image_match(s, at, prefix, greedy) ==
    LET p0 == at + Len(prefix)
        br == find_str(s, "[", p0)
        p1 == IF br = 0 THEN Len(s) + 1 ELSE br
        tail == SubSeq(s, p1 + 1, Len(s))
        close == IF br = 0 THEN 0 ELSE IF greedy THEN rfind(tail, "]") ELSE find(tail, "]")
    IN [ok |-> p1 > p0,
        path |-> SubSeq(s, p0, p1 - 1),
        attrs |-> IF close = 0 THEN "" ELSE SubSeq(tail, 1, close - 1),
        end |-> IF close = 0 THEN p1 ELSE p1 + close + 1]

\* re.finditer over the inline pattern, from index start on
RECURSIVE ImageAttributesRule_inline(_, _, _, _)
ImageAttributesRule_inline(line_content, start, line_number, findings) ==
    LET at == find_str(line_content, "image:", start) IN
    IF at = 0 THEN findings
    ELSE LET m == image_match(line_content, at, "image:", FALSE) IN
         IF ~m.ok
         THEN ImageAttributesRule_inline(line_content, at + 1, line_number, findings)
         ELSE ImageAttributesRule_inline(line_content, m.end, line_number,
                  findings
                  \o ImageAttributesRule_check_image_path(m.path, line_number, line_content)
                  \o ImageAttributesRule_check_attributes(
                         ImageAttributesRule_parse_attributes(m.attrs), "inline", m.path,
                         line_number, line_content))

ImageAttributesRule_check_line(document, line, line_number) ==
    LET line_content == get_line_content(document, line)
        stripped == strip(line_content)
        block == image_match(stripped, 1, "image::", TRUE)
    IN IF startswith(stripped, "image::") /\ block.ok
       THEN ImageAttributesRule_check_image_path(block.path, line_number, line_content)
            \o ImageAttributesRule_check_attributes(
                   ImageAttributesRule_parse_attributes(block.attrs), "block", block.path,
                   line_number, line_content)
       ELSE ImageAttributesRule_inline(line_content, 1, line_number, <<>>)

RECURSIVE ImageAttributesRule_loop(_, _, _)
ImageAttributesRule_loop(document, i, findings) ==
    IF i >= Len(document.items) THEN findings
    ELSE ImageAttributesRule_loop(document, i + 1,
             findings \o ImageAttributesRule_check_line(document, document.items[i + 1], i))

ImageAttributesRule_check(document) == ImageAttributesRule_loop(document, 0, <<>>)

(***************************************************************************)
(* rules/table_rules.py.  The table rules are not among                    *)
(* AsciiDocLinter.rules; they are called with a list of lines.             *)
(***************************************************************************)
\* s.split(sep) for a one-character sep
RECURSIVE split(_, _)
split(s, sep) ==
    LET i == find(s, sep) IN
    IF i = 0 THEN <<s>>
    ELSE <<SubSeq(s, 1, i - 1)>> \o split(SubSeq(s, i + 1, Len(s)), sep)

\* the unclosed table is dropped at the end of the document
RECURSIVE extract_table_loop_closed_only(_, _, _, _, _)
extract_table_loop_closed_only(content, i, tables, current_table, in_table) ==
    IF i > Len(content) THEN tables
    ELSE IF strip(content[i][2]) = "|==="
         THEN IF in_table
              THEN extract_table_loop_closed_only(content, i + 1,
                       Append(tables, Append(current_table, content[i])), <<>>, FALSE)
              ELSE extract_table_loop_closed_only(content, i + 1, tables, <<content[i]>>, TRUE)
         ELSE IF in_table
              THEN extract_table_loop_closed_only(content, i + 1, tables,
                       Append(current_table, content[i]), TRUE)
              ELSE extract_table_loop_closed_only(content, i + 1, tables, current_table, in_table)

\* TableFormatRule.extract_table_lines: the loop over content from its i-th
\* entry on, and after it the unclosed table
RECURSIVE extract_table_loop(_, _, _, _, _)
extract_table_loop(content, i, tables, current_table, in_table) ==
    IF i > Len(content)
    THEN IF in_table /\ current_table # <<>> THEN Append(tables, current_table) ELSE tables
    ELSE IF strip(content[i][2]) = "|==="
         THEN IF in_table
              THEN extract_table_loop(content, i + 1,
                       Append(tables, Append(current_table, content[i])), <<>>, FALSE)
              ELSE extract_table_loop(content, i + 1, tables, <<content[i]>>, TRUE)
         ELSE IF in_table
              THEN extract_table_loop(content, i + 1, tables,
                       Append(current_table, content[i]), TRUE)
              ELSE extract_table_loop(content, i + 1, tables, current_table, in_table)

\* content is a list of str: it is enumerated first, (line_num, line) from 0
extract_table_lines(content) ==
    extract_table_loop([i \in 1..Len(content) |-> <<i - 1, content[i]>>], 1, <<>>, <<>>, FALSE)

\* table_lines[1:-1]
inner(table_lines) == SubSeq(table_lines, 2, Len(table_lines) - 1)

(***************************************************************************)
(* rules/table_rules.py: TableFormatRule                                   *)
(***************************************************************************)
\* the loop over table_lines[1:-1] from its i-th row on.  cell_pattern is
\* \|([^|]*): a match starts at every "|" of the line, so positions are the
\* offsets, from 0, of its "|" characters
RECURSIVE check_column_alignment_loop(_, _, _, _)
check_column_alignment_loop(rows, i, cell_positions, findings) ==
    IF i > Len(rows) THEN findings
    ELSE LET line_num == rows[i][1]
             line == rows[i][2]
             RECURSIVE starts(_)
             starts(k) == IF k > Len(line) THEN <<>>
                          ELSE (IF Char(line, k) = "|" THEN <<k - 1>> ELSE <<>>) \o starts(k + 1)
             positions == starts(1)
         IN IF strip(line) = "" THEN
                check_column_alignment_loop(rows, i + 1, cell_positions, findings)
            ELSE IF positions # <<>> THEN
                IF cell_positions # <<>> /\ positions # cell_positions[1] THEN
                    Append(findings,
                           Finding("TABLE001", Position(line_num + 1, None),
                                   "Column alignment is inconsistent with previous rows",
                                   WARNING, [line |-> line]))
                ELSE check_column_alignment_loop(rows, i + 1,
                                                 Append(cell_positions, positions), findings)
            ELSE check_column_alignment_loop(rows, i + 1, cell_positions, findings)

check_column_alignment(table_lines) ==
    check_column_alignment_loop(inner(table_lines), 1, <<>>, <<>>)

\* header_line is the index in table_lines, from 0, of the first row of
\* table_lines[1:-1] with a "|"; -1 for None
check_header_separator(table_lines) ==
    LET rows == inner(table_lines)
        with_bar == {i \in 1..Len(rows) : contains(rows[i][2], "|")}
        header_line == IF with_bar = {} THEN -1
                       ELSE CHOOSE i \in with_bar : \A j \in with_bar : i <= j
        next_line == header_line + 1
    IN IF header_line # -1 /\ next_line < Len(table_lines) - 1
          /\ strip(table_lines[next_line + 1][2]) # ""
       THEN <<Finding("TABLE001", Position(table_lines[next_line + 1][1] + 1, None),
                      "Header row should be followed by an empty line",
                      WARNING, [line |-> table_lines[next_line + 1][2]])>>
       ELSE <<>>

\* for table in tables: the alignment findings, then the header findings
TableFormatRule_check(document) ==
    LET tables == extract_table_lines(document.items)
        RECURSIVE loop(_)
        loop(t) == IF t > Len(tables) THEN <<>>
                   ELSE check_column_alignment(tables[t]) \o check_header_separator(tables[t])
                            \o loop(t + 1)
    IN loop(1)

(***************************************************************************)
(* rules/table_rules.py: TableStructureRule                                *)
(***************************************************************************)
count_columns(line) ==
    IF strip(line) = "|===" THEN 0
    ELSE Len(Tail(split(line, "|")))

\* the loop over table_lines[1:-1] from its i-th row on; column_count is -1 for None
RECURSIVE check_table_structure_loop(_, _, _, _, _)
check_table_structure_loop(rows, i, column_count, content_lines, findings) ==
    IF i > Len(rows) THEN [findings |-> findings, content_lines |-> content_lines]
    ELSE LET line_num == rows[i][1]
             line == rows[i][2]
             stripped == strip(line)
             current_columns == count_columns(stripped)
         IN IF stripped = "" THEN
                check_table_structure_loop(rows, i + 1, column_count, content_lines, findings)
            ELSE IF contains(stripped, "|") /\ stripped # "|===" THEN
                IF column_count = -1 THEN
                    check_table_structure_loop(rows, i + 1, current_columns,
                                               content_lines + 1, findings)
                ELSE IF current_columns # column_count THEN
                    check_table_structure_loop(rows, i + 1, column_count, content_lines + 1,
                        Append(findings,
                               Finding("TABLE002", Position(line_num + 1, None),
                                       "Inconsistent column count. Expected "
                                           \o ToString(column_count) \o ", found "
                                           \o ToString(current_columns),
                                       ERROR, [line |-> line])))
                ELSE check_table_structure_loop(rows, i + 1, column_count,
                                                content_lines + 1, findings)
            ELSE check_table_structure_loop(rows, i + 1, column_count, content_lines, findings)

check_table_structure(table_lines) ==
    LET r == check_table_structure_loop(inner(table_lines), 1, -1, 0, <<>>) IN
    IF r.content_lines = 0
    THEN Append(r.findings,
                Finding("TABLE002", Position(table_lines[1][1] + 1, None), "Empty table",
                        WARNING, [line |-> table_lines[1][2]]))
    ELSE r.findings

\* for table in tables: findings.extend(self.check_table_structure(table))
RECURSIVE TableStructureRule_loop(_, _)
TableStructureRule_loop(tables, t) ==
    IF t > Len(tables) THEN <<>>
    ELSE check_table_structure(tables[t]) \o TableStructureRule_loop(tables, t + 1)

TableStructureRule_check(document) ==
    TableStructureRule_loop(extract_table_lines(document.items), 1)

(***************************************************************************)
(* rules/table_rules.py: TableContentRule                                  *)
(***************************************************************************)
\* list_pattern ^\s*[\*\-]
list_pattern_match(content) ==
    LET rest == lstrip(content) IN rest # "" /\ Char(rest, 1) \in {"*", "-"}

\* one (prefix, content) pair for the part after each "|"
extract_cells(line) ==
    IF strip(line) = "|===" THEN <<>>
    ELSE LET parts == Tail(split(line, "|")) IN
         [k \in 1..Len(parts) |->
             LET part == strip(parts[k]) IN
             IF (startswith(part, "a") \/ startswith(part, "l")) /\ Len(part) > 1
             THEN <<Char(part, 1), strip(SubSeq(part, 2, Len(part)))>>
             ELSE <<"", part>>]

\* the finding, or None, as a list of at most one finding
check_cell_content(prefix, content, line_num, context) ==
    IF content # "" /\ list_pattern_match(content) /\ prefix \notin {"a", "l"}
    THEN <<Finding("TABLE003", Position(line_num + 1, None),
                   "List in table cell requires 'a|' or 'l|' declaration",
                   WARNING, [line |-> context])>>
    ELSE <<>>

\* the loop over the cells of one line, from the k-th cell on
RECURSIVE TableContentRule_cells(_, _, _, _, _)
TableContentRule_cells(cells, k, line_num, line, found_list) ==
    IF k > Len(cells) THEN <<>>
    ELSE LET finding == IF cells[k][2] # "" /\ list_pattern_match(cells[k][2]) /\ ~found_list
                        THEN check_cell_content(cells[k][1], cells[k][2], line_num, line)
                        ELSE <<>>
         IN finding \o TableContentRule_cells(cells, k + 1, line_num, line,
                                              found_list \/ finding # <<>>)

\* the loop over table[1:-1] from its i-th row on
RECURSIVE TableContentRule_rows(_, _)
TableContentRule_rows(rows, i) ==
    IF i > Len(rows) THEN <<>>
    ELSE (IF strip(rows[i][2]) = "" \/ strip(rows[i][2]) = "|===" THEN <<>>
          ELSE TableContentRule_cells(extract_cells(rows[i][2]), 1, rows[i][1], rows[i][2], FALSE))
         \o TableContentRule_rows(rows, i + 1)

RECURSIVE TableContentRule_loop(_, _)
TableContentRule_loop(tables, t) ==
    IF t > Len(tables) THEN <<>>
    ELSE TableContentRule_rows(inner(tables[t]), 1) \o TableContentRule_loop(tables, t + 1)

TableContentRule_check(document) ==
    TableContentRule_loop(extract_table_lines(document.items), 1)

(***************************************************************************)
(* parser.py: AsciiDocParser.parse keeps the lines that start with "=",    *)
(* each as a Header carrying its 1-based source line number.               *)
(***************************************************************************)
Header(line_number, content, level) ==
    [line_number |-> line_number, content |-> content, level |-> level]

RECURSIVE parse_loop(_, _, _)
parse_loop(lines, line_number, elements) ==
    IF line_number > Len(lines) THEN elements
    ELSE LET line == lines[line_number]
         IN parse_loop(lines, line_number + 1,
                IF startswith(line, "=")
                THEN Append(elements, Header(line_number, line, count_leading(line, "=")))
                ELSE elements)

parse(content) == [of |-> "Header", items |-> parse_loop(splitlines(content), 1, <<>>)]

(***************************************************************************)
(* reporter.py: LintReport                                                 *)
(***************************************************************************)
LintReport(findings) == [findings |-> findings]

\* bool(list): a list is true when it has an element
bool(list) == Len(list) > 0

\* An exit code that ignores the findings.
LintReport_exit_code_zero(report) == 0

LintReport_exit_code(report) == IF bool(report.findings) THEN 1 ELSE 0

(***************************************************************************)
(* linter.py: AsciiDocLinter.  The rule instances of self.rules are the    *)
(* variables ub_open_blocks, bs_open_blocks and consecutive_empty_lines;   *)
(* lint_string returns the report together with the state it leaves them   *)
(* in.                                                                     *)
(***************************************************************************)
\* error.file = source
set_file(error, source) ==
    [x \in DOMAIN error \cup {"file"} |-> IF x = "file" THEN source ELSE error[x]]

\* if source: a str is true when it is not None and not empty
truthy(source) == source # None /\ source # ""

lint_string(content, source, open_ub, open_bs, counter) ==
    LET document == parse(content)
        r1 == HeadingFormatRule_check(document)
        r2 == HeadingHierarchyRule_check(document)
        r3 == MultipleTopLevelHeadingsRule_check(document)
        r4 == UnterminatedBlockRule_check(document, open_ub)
        r5 == BlockSpacingRule_check(document, open_bs)
        r6 == WhitespaceRule_check(document, counter)
        r7 == ImageAttributesRule_check(document)
        errors == r1 \o r2 \o r3 \o r4.findings \o r5.findings \o r6.findings \o r7
    IN [report |-> LintReport(IF truthy(source)
                              THEN [i \in 1..Len(errors) |-> set_file(errors[i], source)]
                              ELSE errors),
        ub_open_blocks |-> r4.open_blocks,
        bs_open_blocks |-> r5.open_blocks,
        consecutive_empty_lines |-> r6.counter]

\* lint_string when self.rules holds one rule more, the last, that is a Rule of
\* the base class: its check raises NotImplementedError (rules/base.py:105).
\* The for loop has no try: the exception leaves lint_string after the seven
\* rules have run, and errors is dropped.
lint_string_extra_rule(content, source, open_ub, open_bs, counter) ==
    LET r == lint_string(content, source, open_ub, open_bs, counter) IN
    [raised |-> [exception |-> "NotImplementedError",
                 message |-> "Rule must implement check method"],
     ub_open_blocks |-> r.ub_open_blocks,
     bs_open_blocks |-> r.bs_open_blocks,
     consecutive_empty_lines |-> r.consecutive_empty_lines]

\* The record lint_file builds for a file it could not read: LintError(file, line, message).
LintError(file, line, message) == [file |-> file, line |-> line, message |-> message]

\* The files of the run: Path.exists and Path.read_text answer from this map.
FileSystem ==
    ("missing.adoc" :> [exists |-> FALSE, readable |-> FALSE, content |-> ""]) @@
    ("locked.adoc"  :> [exists |-> TRUE,  readable |-> FALSE, content |-> ""]) @@
    ("clean.adoc"   :> [exists |-> TRUE,  readable |-> TRUE,  content |-> "= Title\n\ntext\n"]) @@
    ("block.adoc"   :> [exists |-> TRUE,  readable |-> TRUE,  content |-> "text\n----\ncode"]) @@
    ("dirty.adoc"   :> [exists |-> TRUE,  readable |-> TRUE,  content |-> "= image:a.png[]\n==sub"])

Paths == DOMAIN FileSystem

exists(path) == FileSystem[path].exists

\* Path.read_text: the content, or the OSError it raises (e is str(exception))
read_text(path) ==
    IF ~FileSystem[path].exists
    THEN [raised |-> TRUE, e |-> "[Errno 2] No such file or directory: '" \o path \o "'"]
    ELSE IF ~FileSystem[path].readable
         THEN [raised |-> TRUE, e |-> "[Errno 13] Permission denied: '" \o path \o "'"]
         ELSE [raised |-> FALSE, content |-> FileSystem[path].content]

\* A lint_file whose except branch returns an empty report.
lint_file_swallow(file_path, open_ub, open_bs, counter) ==
    LET read == read_text(file_path)
    IN IF ~read.raised
       THEN lint_string(read.content, file_path, open_ub, open_bs, counter)
       ELSE [report |-> LintReport(<<>>),
             ub_open_blocks |-> open_ub, bs_open_blocks |-> open_bs,
             consecutive_empty_lines |-> counter]

lint_file(file_path, open_ub, open_bs, counter) ==
    LET read == read_text(file_path)
    IN IF ~read.raised
       THEN lint_string(read.content, file_path, open_ub, open_bs, counter)
       ELSE [report |-> LintReport(<<LintError(file_path, 0, "Error reading file: " \o read.e)>>),
             ub_open_blocks |-> open_ub, bs_open_blocks |-> open_bs,
             consecutive_empty_lines |-> counter]

(***************************************************************************)
(* reporter.py: the reporters.  They read finding.file, finding.location   *)
(* and finding.to_json_object(), which the Finding of rules/base.py does   *)
(* not define; file_of, location and to_json_object below are written from *)
(* what tests/test_reporter.py expects of them.  The check mark and the    *)
(* cross of the console report are written "v" and "x"; colour is off.     *)
(***************************************************************************)
\* rules/base.py Position.__str__
Position_str(position) ==
    IF position.column # None
    THEN "line " \o ToString(position.line) \o ", column " \o ToString(position.column)
    ELSE "line " \o ToString(position.line)

\* finding.file: the source lint_string attached, None when it attached none
file_of(finding) == IF "file" \in DOMAIN finding THEN finding.file ELSE None

\* finding.location: "<file>, <position>", or the position alone without a file
location(finding) ==
    IF truthy(file_of(finding))
    THEN file_of(finding) \o ", " \o Position_str(finding.position)
    ELSE Position_str(finding.position)

\* json.dumps of a str: quoted, with the quote, the backslash, newline and tab escaped
RECURSIVE json_escape(_)
json_escape(s) ==
    IF s = "" THEN ""
    ELSE (CASE Head(s) = Head("\"") -> "\\\""
            [] Head(s) = Head("\\") -> "\\\\"
            [] Head(s) = Head("\n") -> "\\n"
            [] Head(s) = Head("\t") -> "\\t"
            [] OTHER -> SubSeq(s, 1, 1))
         \o json_escape(Tail(s))

json_str(s) == IF s = None THEN "null" ELSE "\"" \o json_escape(s) \o "\""

\* json.dumps(finding.to_json_object(), indent=2), as it stands inside the findings list
to_json_object(finding) ==
    "{\n      \"file\": " \o json_str(file_of(finding))
    \o ",\n      \"line\": " \o ToString(finding.position.line)
    \o ",\n      \"column\": " \o (IF finding.position.column = None THEN "null"
                                     ELSE ToString(finding.position.column))
    \o ",\n      \"message\": " \o json_str(finding.message)
    \o ",\n      \"severity\": " \o json_str(finding.severity)
    \o ",\n      \"rule_id\": " \o json_str(finding.rule_id)
    \o ",\n      \"context\": " \o json_str(finding.context)
    \o "\n    }"

RECURSIVE join(_, _)
join(parts, sep) ==
    IF parts = <<>> THEN ""
    ELSE IF Len(parts) = 1 THEN parts[1]
         ELSE parts[1] \o sep \o join(Tail(parts), sep)

\* grouped[finding.file].append(finding); the dict keeps its keys in insertion order
\* a finding joins the group before it only: a file met again starts a new group
grouped_append_adjacent(grouped, finding) ==
    IF grouped # <<>> /\ grouped[Len(grouped)].file = file_of(finding)
    THEN [k \in 1..Len(grouped) |->
             IF k = Len(grouped)
             THEN [file |-> grouped[k].file, findings |-> Append(grouped[k].findings, finding)]
             ELSE grouped[k]]
    ELSE Append(grouped, [file |-> file_of(finding), findings |-> <<finding>>])

grouped_append(grouped, finding) ==
    IF \E k \in 1..Len(grouped) : grouped[k].file = file_of(finding)
    THEN [k \in 1..Len(grouped) |->
             IF grouped[k].file = file_of(finding)
             THEN [file |-> grouped[k].file, findings |-> Append(grouped[k].findings, finding)]
             ELSE grouped[k]]
    ELSE Append(grouped, [file |-> file_of(finding), findings |-> <<finding>>])

RECURSIVE grouped_loop(_, _, _)
grouped_loop(findings, i, grouped) ==
    IF i > Len(findings) THEN grouped
    ELSE CHOOSE returned \in {grouped_loop(findings, i + 1, g) :
                               g \in {grouped_append(grouped, findings[i])}} : TRUE

\* LintReport.grouped_findings, as the sequence of its items()
grouped_findings(report) == grouped_loop(report.findings, 1, <<>>)

ConsoleReporter_finding_line(finding) ==
    IF location(finding) # ""
    THEN "x " \o location(finding) \o ": " \o finding.message
    ELSE "x " \o finding.message

RECURSIVE ConsoleReporter_loop(_, _, _)
ConsoleReporter_loop(grouped, k, output) ==
    IF k > Len(grouped) THEN output
    ELSE ConsoleReporter_loop(grouped, k + 1,
             output
             \o <<IF truthy(grouped[k].file)
                  THEN "Results for " \o grouped[k].file \o ":"
                  ELSE "Results without file:">>
             \o [j \in 1..Len(grouped[k].findings) |->
                    ConsoleReporter_finding_line(grouped[k].findings[j])]
             \o <<"\n">>)

ConsoleReporter_format_report(report) ==
    IF ~bool(report.findings) THEN "v No issues found"
    ELSE join(ConsoleReporter_loop(grouped_findings(report), 1, <<>>), "\n")

\* json.dumps({"findings": [...]}, indent=2)
JsonReporter_format_report(report) ==
    IF report.findings = <<>> THEN "{\n  \"findings\": []\n}"
    ELSE "{\n  \"findings\": [\n    "
         \o join([j \in 1..Len(report.findings) |-> to_json_object(report.findings[j])],
                 ",\n    ")
         \o "\n  ]\n}"

HtmlReporter_row(finding) ==
    <<"<tr>",
      "<td>" \o finding.severity \o "</td>",
      "<td>" \o finding.rule_id \o "</td>",
      "<td>" \o location(finding) \o "</td>",
      "<td>" \o finding.message \o "</td>",
      "</tr>">>

RECURSIVE HtmlReporter_rows(_, _, _)
HtmlReporter_rows(findings, j, rows) ==
    IF j > Len(findings) THEN rows
    ELSE HtmlReporter_rows(findings, j + 1, rows \o HtmlReporter_row(findings[j]))

HtmlReporter_format_report(report) ==
    "<!DOCTYPE html>\n<html>\n<head>\n    <meta charset=\"UTF-8\">\n"
    \o "    <title>AsciiDoc Lint Results</title>\n    <style>\n"
    \o "        table { border-collapse: collapse; width: 100%; }\n"
    \o "        th, td { padding: 8px; text-align: left; border: 1px solid #ddd; }\n"
    \o "        th { background-color: #f2f2f2; }\n"
    \o "        tr:nth-child(even) { background-color: #f9f9f9; }\n"
    \o "        tr:hover { background-color: #f5f5f5; }\n"
    \o "    </style>\n</head>\n<body>\n"
    \o "    <h1>AsciiDoc Lint Results</h1>\n    <table>\n        <tr>\n"
    \o "            <th>Severity</th>\n            <th>Rule ID</th>\n"
    \o "            <th>Location</th>\n            <th>Message</th>\n        </tr>\n        "
    \o join(HtmlReporter_rows(report.findings, 1, <<>>), "\n")
    \o "\n    </table>\n</body>\n</html>"

Reporters == {"ConsoleReporter", "JsonReporter", "HtmlReporter"}

\* self.reporter.format_report(report)
format_report(reporter_class, report) ==
    CASE reporter_class = "ConsoleReporter" -> ConsoleReporter_format_report(report)
      [] reporter_class = "JsonReporter" -> JsonReporter_format_report(report)
      [] reporter_class = "HtmlReporter" -> HtmlReporter_format_report(report)

\* AsciiDocLinter.lint: the formatted report of lint_string.  r \in {e} names the value
\* of e, as the local variable report does in the source.
lint(content, source, reporter_class, open_ub, open_bs, counter) ==
    CHOOSE returned \in
        {[output |-> format_report(reporter_class, r.report),
          ub_open_blocks |-> r.ub_open_blocks,
          bs_open_blocks |-> r.bs_open_blocks,
          consecutive_empty_lines |-> r.consecutive_empty_lines] :
         r \in {lint_string(content, source, open_ub, open_bs, counter)}} : TRUE

(***************************************************************************)
(* cli.py: main.  One pass of the for loop over parsed_args.files, from    *)
(* the locals and the linter's rule state before it to those after it.     *)
(***************************************************************************)
\* A loop body whose except branch leaves exit_code as it was.
main_body_forgetful(file_path, reporter_class, code, out, err, calls, open_ub, open_bs, counter) ==
    LET same == [exit_code |-> code, stdout |-> out, stderr |-> err, lint_calls |-> calls,
                 ub_open_blocks |-> open_ub, bs_open_blocks |-> open_bs,
                 consecutive_empty_lines |-> counter]
    IN IF ~exists(file_path)
       THEN [same EXCEPT !.stderr = Append(err, "Error: File not found: " \o file_path),
                         !.exit_code = 1]
       ELSE LET read == read_text(file_path)
            IN IF read.raised
               THEN [same EXCEPT !.stderr = Append(err, "Error processing " \o file_path
                                                        \o ": " \o read.e)]
               ELSE CHOOSE after \in
                        {[exit_code |-> IF r.output # "" THEN 1 ELSE code,
                          stdout |-> IF r.output # ""
                                     THEN out \o <<"\nResults for " \o file_path \o ":",
                                                    r.output>>
                                     ELSE out,
                          stderr |-> err,
                          lint_calls |-> Append(calls, file_path),
                          ub_open_blocks |-> r.ub_open_blocks,
                          bs_open_blocks |-> r.bs_open_blocks,
                          consecutive_empty_lines |-> r.consecutive_empty_lines] :
                         r \in {lint(read.content, None, reporter_class, open_ub, open_bs,
                                      counter)}} : TRUE

main_body(file_path, reporter_class, code, out, err, calls, open_ub, open_bs, counter) ==
    LET same == [exit_code |-> code, stdout |-> out, stderr |-> err, lint_calls |-> calls,
                 ub_open_blocks |-> open_ub, bs_open_blocks |-> open_bs,
                 consecutive_empty_lines |-> counter]
    IN IF ~exists(file_path)
       THEN [same EXCEPT !.stderr = Append(err, "Error: File not found: " \o file_path),
                         !.exit_code = 1]
       ELSE LET read == read_text(file_path)
            IN IF read.raised
               THEN [same EXCEPT !.stderr = Append(err, "Error processing " \o file_path
                                                        \o ": " \o read.e),
                                 !.exit_code = 1]
               ELSE CHOOSE after \in
                        {[exit_code |-> IF r.output # "" THEN 1 ELSE code,
                          stdout |-> IF r.output # ""
                                     THEN out \o <<"\nResults for " \o file_path \o ":",
                                                    r.output>>
                                     ELSE out,
                          stderr |-> err,
                          lint_calls |-> Append(calls, file_path),
                          ub_open_blocks |-> r.ub_open_blocks,
                          bs_open_blocks |-> r.bs_open_blocks,
                          consecutive_empty_lines |-> r.consecutive_empty_lines] :
                         r \in {lint(read.content, None, reporter_class, open_ub, open_bs,
                                      counter)}} : TRUE

(***************************************************************************)
(* Direct use of one block rule instance, as the rule tests use it:        *)
(* rule.check(document) and rule.check_line(line, i, document), in any     *)
(* order and on any documents, then the caller drops what was returned.    *)
(***************************************************************************)
BlockLines == {"----", " ----", "====", "", "text"}

RECURSIVE SeqsUpTo(_, _)
SeqsUpTo(S, n) ==
    IF n = 0 THEN {<<>>}
    ELSE LET shorter == SeqsUpTo(S, n - 1)
         IN shorter \cup {Append(d, x) : d \in shorter, x \in S}

BlockDocuments == SeqsUpTo(BlockLines, MaxBlockLines)

\* BlockSpacingRule.check also meets heading lines, as in test_heading_exception
SpacingDocuments == SeqsUpTo(BlockLines \cup {"= T"}, MaxBlockLines)

Idle == [op |-> "idle"]

\* cli.main is not running and a new linter has the console reporter
NoMain ==
    /\ reporter = "ConsoleReporter"
    /\ pc = "idle"
    /\ main_i = 0
    /\ exit_code = 0
    /\ stdout = <<>>
    /\ stderr = <<>>
    /\ lint_calls = <<>>

InitBlock ==
    /\ rule \in {"UnterminatedBlockRule", "BlockSpacingRule"}
    /\ ub_open_blocks = EmptyDict
    /\ bs_open_blocks = EmptyDict
    /\ consecutive_empty_lines = 0
    /\ call = Idle
    /\ result = <<>>
    /\ NoMain

UnterminatedBlockRule_check_call ==
    /\ rule = "UnterminatedBlockRule"
    /\ call = Idle
    /\ \E lines \in BlockDocuments :
           LET r == UnterminatedBlockRule_check(StrDocument(lines), ub_open_blocks) IN
           /\ ub_open_blocks' = r.open_blocks
           /\ result' = r.findings
           /\ call' = [op |-> "check", document |-> lines, open_before |-> ub_open_blocks]
    /\ UNCHANGED <<rule, bs_open_blocks, consecutive_empty_lines, mainVars>>

\* rule.check_line(line, i, document) with line = document[i], as the tests call it
UnterminatedBlockRule_check_line_call ==
    /\ rule = "UnterminatedBlockRule"
    /\ call = Idle
    /\ \E lines \in BlockDocuments : \E line_num \in 0..(Len(lines) - 1) :
           LET r == UnterminatedBlockRule_check_line(lines[line_num + 1], line_num, lines,
                                                     ub_open_blocks) IN
           /\ ub_open_blocks' = r.open_blocks
           /\ result' = r.findings
           /\ call' = [op |-> "check_line", document |-> lines, line_num |-> line_num,
                       open_before |-> ub_open_blocks]
    /\ UNCHANGED <<rule, bs_open_blocks, consecutive_empty_lines, mainVars>>

BlockSpacingRule_check_call ==
    /\ rule = "BlockSpacingRule"
    /\ call = Idle
    /\ \E lines \in SpacingDocuments :
           LET r == BlockSpacingRule_check(StrDocument(lines), bs_open_blocks) IN
           /\ bs_open_blocks' = r.open_blocks
           /\ result' = r.findings
           /\ call' = [op |-> "check", document |-> lines, open_before |-> bs_open_blocks]
    /\ UNCHANGED <<rule, ub_open_blocks, consecutive_empty_lines, mainVars>>

BlockSpacingRule_check_line_call ==
    /\ rule = "BlockSpacingRule"
    /\ call = Idle
    /\ \E lines \in BlockDocuments : \E line_num \in 0..(Len(lines) - 1) :
           LET r == BlockSpacingRule_check_line(lines[line_num + 1], line_num, lines,
                                                bs_open_blocks) IN
           /\ bs_open_blocks' = r.open_blocks
           /\ result' = r.findings
           /\ call' = [op |-> "check_line", document |-> lines, line_num |-> line_num,
                       open_before |-> bs_open_blocks]
    /\ UNCHANGED <<rule, ub_open_blocks, consecutive_empty_lines, mainVars>>

\* The caller is done with the findings it was given; the rule instance stays.
Return ==
    /\ call # Idle
    /\ pc = "idle"
    /\ call' = Idle
    /\ result' = <<>>
    /\ UNCHANGED <<rule, ub_open_blocks, bs_open_blocks, consecutive_empty_lines, mainVars>>

NextBlock ==
    \/ UnterminatedBlockRule_check_call
    \/ UnterminatedBlockRule_check_line_call
    \/ BlockSpacingRule_check_call
    \/ BlockSpacingRule_check_line_call
    \/ Return

SpecBlock == InitBlock /\ [][NextBlock]_vars

(***************************************************************************)
(* Direct use of one WhitespaceRule instance: rule.check(document) and     *)
(* rule.check_line(line, i, document) on any documents.  The counter is    *)
(* unbounded in the program; the model stops growing it at MaxEmptyLines.  *)
(***************************************************************************)
WhitespaceLines == {"", " ", "text", "*item", "= Title", "NOTE: n", "a\tb"}

WhitespaceDocuments == SeqsUpTo(WhitespaceLines, MaxWhitespaceLines)

InitWhitespace ==
    /\ rule = "WhitespaceRule"
    /\ ub_open_blocks = EmptyDict
    /\ bs_open_blocks = EmptyDict
    /\ consecutive_empty_lines = 0
    /\ call = Idle
    /\ result = <<>>
    /\ NoMain

WhitespaceRule_check_call ==
    /\ rule = "WhitespaceRule"
    /\ call = Idle
    /\ \E lines \in WhitespaceDocuments :
           LET r == WhitespaceRule_check(StrDocument(lines), consecutive_empty_lines) IN
           /\ r.counter <= MaxEmptyLines
           /\ consecutive_empty_lines' = r.counter
           /\ result' = r.findings
           /\ call' = [op |-> "check", document |-> lines,
                       counter_before |-> consecutive_empty_lines]
    /\ UNCHANGED <<rule, ub_open_blocks, bs_open_blocks, mainVars>>

WhitespaceRule_check_line_call ==
    /\ rule = "WhitespaceRule"
    /\ call = Idle
    /\ \E lines \in WhitespaceDocuments : \E line_number \in 0..(Len(lines) - 1) :
           LET r == WhitespaceRule_check_line(StrDocument(lines), lines[line_number + 1],
                                              line_number, consecutive_empty_lines) IN
           /\ r.counter <= MaxEmptyLines
           /\ consecutive_empty_lines' = r.counter
           /\ result' = r.findings
           /\ call' = [op |-> "check_line", document |-> lines, line_num |-> line_number,
                       counter_before |-> consecutive_empty_lines]
    /\ UNCHANGED <<rule, ub_open_blocks, bs_open_blocks, mainVars>>

NextWhitespace ==
    \/ WhitespaceRule_check_call
    \/ WhitespaceRule_check_line_call
    \/ Return

SpecWhitespace == InitWhitespace /\ [][NextWhitespace]_vars

(***************************************************************************)
(* The engine: one AsciiDocLinter used as a library (lint_string,          *)
(* lint_file, lint, set_reporter, in any order) and the command line       *)
(* (cli.main), which builds a linter of its own and runs its loop one      *)
(* file per step.                                                          *)
(***************************************************************************)
ContentLines == {"= Title", "==sub", "= image:a.png[]", "----", "text", ""}

Contents == {join(d, "\n") : d \in SeqsUpTo(ContentLines, MaxContentLines)}

Sources == {None, "", "doc.adoc"}

\* parsed_args.files: argparse takes one file or more (nargs='+')
FileLists == SeqsUpTo(Paths, MaxFiles) \ {<<>>}

Init ==
    /\ rule = "AsciiDocLinter"
    /\ ub_open_blocks = EmptyDict
    /\ bs_open_blocks = EmptyDict
    /\ consecutive_empty_lines = 0
    /\ call = Idle
    /\ result = <<>>
    /\ NoMain

AsciiDocLinter_set_reporter_call ==
    /\ rule = "AsciiDocLinter"
    /\ call = Idle
    /\ \E r \in Reporters :
           /\ r # reporter
           /\ reporter' = r
    /\ UNCHANGED <<rule, ub_open_blocks, bs_open_blocks, consecutive_empty_lines, call, result,
                   pc, main_i, exit_code, stdout, stderr, lint_calls>>

AsciiDocLinter_lint_string_call ==
    /\ rule = "AsciiDocLinter"
    /\ call = Idle
    /\ \E content \in Contents : \E source \in Sources :
           \E r \in {lint_string(content, source, ub_open_blocks, bs_open_blocks,
                                consecutive_empty_lines)} :
           /\ ub_open_blocks' = r.ub_open_blocks
           /\ bs_open_blocks' = r.bs_open_blocks
           /\ consecutive_empty_lines' = r.consecutive_empty_lines
           /\ result' = r.report
           /\ call' = [op |-> "lint_string", content |-> content, source |-> source]
    /\ UNCHANGED <<rule, mainVars>>

\* linter.rules.append(Rule()) before the call, linter.rules.pop() after it
AsciiDocLinter_lint_string_extra_rule_call ==
    /\ rule = "AsciiDocLinter"
    /\ call = Idle
    /\ pc = "idle"
    /\ \E content \in Contents : \E source \in Sources :
           \E r \in {lint_string_extra_rule(content, source, ub_open_blocks, bs_open_blocks,
                                           consecutive_empty_lines)} :
           /\ ub_open_blocks' = r.ub_open_blocks
           /\ bs_open_blocks' = r.bs_open_blocks
           /\ consecutive_empty_lines' = r.consecutive_empty_lines
           /\ result' = r.raised
           /\ call' = [op |-> "lint_string_extra_rule", content |-> content, source |-> source,
                       open_ub |-> ub_open_blocks, open_bs |-> bs_open_blocks,
                       counter |-> consecutive_empty_lines]
    /\ UNCHANGED <<rule, mainVars>>

AsciiDocLinter_lint_file_call ==
    /\ rule = "AsciiDocLinter"
    /\ call = Idle
    /\ \E file_path \in Paths :
           \E r \in {lint_file(file_path, ub_open_blocks, bs_open_blocks,
                              consecutive_empty_lines)} :
           /\ ub_open_blocks' = r.ub_open_blocks
           /\ bs_open_blocks' = r.bs_open_blocks
           /\ consecutive_empty_lines' = r.consecutive_empty_lines
           /\ result' = r.report
           /\ call' = [op |-> "lint_file", file_path |-> file_path]
    /\ UNCHANGED <<rule, mainVars>>

AsciiDocLinter_lint_call ==
    /\ rule = "AsciiDocLinter"
    /\ call = Idle
    /\ \E content \in Contents : \E source \in Sources :
           \E r \in {lint(content, source, reporter, ub_open_blocks, bs_open_blocks,
                         consecutive_empty_lines)} :
           /\ ub_open_blocks' = r.ub_open_blocks
           /\ bs_open_blocks' = r.bs_open_blocks
           /\ consecutive_empty_lines' = r.consecutive_empty_lines
           /\ result' = r.output
           /\ call' = [op |-> "lint", content |-> content, source |-> source]
    /\ UNCHANGED <<rule, mainVars>>

\* main up to the loop: linter = AsciiDocLinter(), the reporter of --format, exit_code = 0
MainStart ==
    /\ rule = "AsciiDocLinter"
    /\ call = Idle
    /\ \E files \in FileLists : \E format \in {"console", "json", "html"} :
           /\ call' = [op |-> "main", files |-> files, format |-> format]
           /\ reporter' = CASE format = "json" -> "JsonReporter"
                            [] format = "html" -> "HtmlReporter"
                            [] OTHER -> "ConsoleReporter"
    /\ ub_open_blocks' = EmptyDict
    /\ bs_open_blocks' = EmptyDict
    /\ consecutive_empty_lines' = 0
    /\ exit_code' = 0
    /\ main_i' = 0
    /\ pc' = "loop"
    /\ stdout' = <<>>
    /\ stderr' = <<>>
    /\ lint_calls' = <<>>
    /\ UNCHANGED <<rule, result>>

\* One pass of the loop, on parsed_args.files[main_i].
MainStep ==
    /\ pc = "loop"
    /\ main_i < Len(call.files)
    /\ \E r \in {main_body(call.files[main_i + 1], reporter, exit_code, stdout, stderr,
                          lint_calls, ub_open_blocks, bs_open_blocks,
                          consecutive_empty_lines)} :
           /\ exit_code' = r.exit_code
           /\ stdout' = r.stdout
           /\ stderr' = r.stderr
           /\ lint_calls' = r.lint_calls
           /\ ub_open_blocks' = r.ub_open_blocks
           /\ bs_open_blocks' = r.bs_open_blocks
           /\ consecutive_empty_lines' = r.consecutive_empty_lines
    /\ main_i' = main_i + 1
    /\ UNCHANGED <<rule, call, result, reporter, pc>>

\* return exit_code
MainReturn ==
    /\ pc = "loop"
    /\ main_i = Len(call.files)
    /\ pc' = "done"
    /\ result' = exit_code
    /\ UNCHANGED <<rule, ub_open_blocks, bs_open_blocks, consecutive_empty_lines, call,
                   reporter, main_i, exit_code, stdout, stderr, lint_calls>>

\* The process ends; main's locals and the linter it built go with it.
MainExit ==
    /\ pc = "done"
    /\ call' = Idle
    /\ result' = <<>>
    /\ ub_open_blocks' = EmptyDict
    /\ bs_open_blocks' = EmptyDict
    /\ consecutive_empty_lines' = 0
    /\ reporter' = "ConsoleReporter"
    /\ pc' = "idle"
    /\ main_i' = 0
    /\ exit_code' = 0
    /\ stdout' = <<>>
    /\ stderr' = <<>>
    /\ lint_calls' = <<>>
    /\ UNCHANGED rule

\* The findings of a report built directly, as in tests/test_reporter.py: two of
\* one file, one of another file and one without a file.
ReportFindings ==
    {set_file(Finding("HEAD001", Position(1, None), "first", ERROR, None), "a.adoc"),
     set_file(Finding("HEAD002", Position(2, None), "second", WARNING, None), "a.adoc"),
     set_file(Finding("HEAD001", Position(1, None), "first", ERROR, None), "b.adoc"),
     Finding("WS001", Position(3, None), "third", INFO, None)}

\* LintReport(findings).grouped_findings()
LintReport_grouped_findings_call ==
    /\ rule = "AsciiDocLinter"
    /\ call = Idle
    /\ pc = "idle"
    /\ \E findings \in SeqsUpTo(ReportFindings, MaxReportFindings) :
           /\ result' = grouped_findings(LintReport(findings))
           /\ call' = [op |-> "grouped_findings", findings |-> findings]
    /\ UNCHANGED <<rule, ub_open_blocks, bs_open_blocks, consecutive_empty_lines, mainVars>>

\* The text between the brackets of an image macro: attributes joined by commas.
AttributeStrings ==
    {join(parts, ",") : parts \in SeqsUpTo({"Alt", "width=100", "title=\"a,b\"", "t=\"x",
                                            " k = \"v\" "}, MaxAttributes)}

\* _parse_attributes of the ImageAttributesRule among the linter's rules
ImageAttributesRule_parse_attributes_call ==
    /\ rule = "AsciiDocLinter"
    /\ call = Idle
    /\ pc = "idle"
    /\ \E attr_string \in AttributeStrings :
           /\ result' = ImageAttributesRule_parse_attributes(attr_string)
           /\ call' = [op |-> "_parse_attributes", attr_string |-> attr_string]
    /\ UNCHANGED <<rule, ub_open_blocks, bs_open_blocks, consecutive_empty_lines, mainVars>>

Next ==
    \/ AsciiDocLinter_set_reporter_call
    \/ LintReport_grouped_findings_call
    \/ ImageAttributesRule_parse_attributes_call
    \/ AsciiDocLinter_lint_string_call
    \/ AsciiDocLinter_lint_string_extra_rule_call
    \/ AsciiDocLinter_lint_file_call
    \/ AsciiDocLinter_lint_call
    \/ MainStart
    \/ MainStep
    \/ MainReturn
    \/ MainExit
    \/ Return

Spec == Init /\ [][Next]_vars

\* The loop moves on to the next file.  Under Spec the steps that do so are the
\* MainStep steps, and MainStep can be taken whenever a file is left.
MainPass ==
    /\ pc = "loop"
    /\ main_i < Len(call.files)
    /\ main_i' = main_i + 1

\* main is sequential code: a pass of the loop that can start is made, and so is the return.
FairSpec == Spec /\ WF_main_i(MainPass) /\ WF_pc(MainReturn)

(***************************************************************************)
(* Properties of the engine (Spec, FairSpec).                              *)
(***************************************************************************)
\* C1: for every LintReport the linter returns, exit_code is 0 if and only if the
\* findings list is empty, and 1 otherwise.
C1_ExitCodeZeroIffNoFindings ==
    call.op \in {"lint_string", "lint_file"} =>
        /\ LintReport_exit_code(result) = 0 <=> result.findings = <<>>
        /\ result.findings # <<>> => LintReport_exit_code(result) = 1

\* A report with findings has been returned and its exit code is 1.
C1_Witness ==
    /\ call.op = "lint_string"
    /\ call.content = "==sub"
    /\ Len(result.findings) > 0
    /\ LintReport_exit_code(result) = 1

\* C2: the findings of the report lint_string returns are in ascending order of
\* position.line, whatever the order in which the rules emitted them.
C2_FindingsAscendingByLine ==
    call.op = "lint_string" =>
        \A i, j \in 1..Len(result.findings) :
            i < j => result.findings[i].position.line <= result.findings[j].position.line

\* What the seven rules of a new linter find, in registration order, on a list of lines.
FindingsOnLines(lines) ==
    HeadingFormatRule_check(StrDocument(lines))
    \o HeadingHierarchyRule_check(StrDocument(lines))
    \o MultipleTopLevelHeadingsRule_check(StrDocument(lines))
    \o UnterminatedBlockRule_check(StrDocument(lines), EmptyDict).findings
    \o BlockSpacingRule_check(StrDocument(lines), EmptyDict).findings
    \o WhitespaceRule_check(StrDocument(lines), 0).findings
    \o ImageAttributesRule_check(StrDocument(lines))

\* How many times x stands in the sequence s.
Count(x, s) == Cardinality({i \in 1..Len(s) : s[i] = x})

\* The finding without the file lint_string attached to it.
WithoutFile(finding) == [x \in DOMAIN finding \ {"file"} |-> finding[x]]

\* C3: the document lint_string hands to the rules is the full ordered sequence of
\* the content's source lines, so the report holds exactly the findings the rules
\* produce on that sequence, with the same 1-based source line numbers.
C3_RulesSeeAllSourceLines ==
    call.op = "lint_string" =>
        LET reported == [i \in 1..Len(result.findings) |-> WithoutFile(result.findings[i])]
            expected == FindingsOnLines(splitlines(call.content))
        IN /\ Len(reported) = Len(expected)
           /\ \A i \in 1..Len(expected) : Count(expected[i], reported) = Count(expected[i], expected)

\* C4: when reading the file fails, lint_file returns a report (it does not raise)
\* holding exactly one finding, for that file, whose message contains
\* 'Error reading file' and the cause of the failure.
C4_ReadFailureIsOneFinding ==
    (call.op = "lint_file" /\ read_text(call.file_path).raised) =>
        /\ Len(result.findings) = 1
        /\ result.findings[1].file = call.file_path
        /\ find_str(result.findings[1].message, "Error reading file", 1) > 0
        /\ find_str(result.findings[1].message, read_text(call.file_path).e, 1) > 0

\* lint_file has returned from a file it is not permitted to read.
C4_Witness ==
    /\ call.op = "lint_file"
    /\ call.file_path = "locked.adoc"
    /\ read_text(call.file_path).raised
    /\ Len(result.findings) = 1

\* The report of a file that can be read, from a new linter.
ReportOf(file_path) ==
    lint_string(FileSystem[file_path].content, None, EmptyDict, EmptyDict, 0).report

Readable(file_path) == exists(file_path) /\ ~read_text(file_path).raised

\* C5: main returns 0 when every given file exists, is readable and has a report
\* without findings, and returns 1 when the report of at least one file has a finding.
C5_ExitCodeReflectsFindings ==
    pc = "done" =>
        /\ (\A i \in 1..Len(call.files) :
               Readable(call.files[i]) /\ ReportOf(call.files[i]).findings = <<>>)
           => result = 0
        /\ (\E i \in 1..Len(call.files) :
               Readable(call.files[i]) /\ ReportOf(call.files[i]).findings # <<>>)
           => result = 1

\* C6: a missing or unreadable file does not stop main: every file that can be read
\* is still read and linted, in order; the exit code main returns is then 1; once
\* exit_code is 1 inside the loop it stays 1; and main terminates.
C6_MissingFileDoesNotStopRun ==
    /\ [](IF pc = "done"
          THEN /\ lint_calls = SelectSeq(call.files, Readable)
               /\ (\E i \in 1..Len(call.files) : ~Readable(call.files[i])) => result = 1
          ELSE TRUE)
    /\ [][(pc = "loop" /\ exit_code = 1) => exit_code' = 1]_exit_code
    /\ (pc = "loop" ~> pc = "done")

\* main has returned 1 from a missing file, an unreadable file and then a readable one,
\* which it linted.
C6_Witness ==
    /\ pc = "done"
    /\ call.files = <<"missing.adoc", "locked.adoc", "clean.adoc">>
    /\ lint_calls = <<"clean.adoc">>
    /\ result = 1

(***************************************************************************)
(* Properties of the block rules (SpecBlock).                              *)
(***************************************************************************)
\* The 1-based numbers of the lines that strip to marker m.
Occurrences(m, lines) == {i \in 1..Len(lines) : strip(lines[i]) = m}

\* The findings whose context (the offending line) strips to marker m.
FindingsFor(m, findings) == {j \in 1..Len(findings) : strip(findings[j].context) = m}

\* C8: UnterminatedBlockRule.check and BlockSpacingRule.check start every call from
\* an empty open-block map: the findings returned for a document, and the map left
\* behind, are those of a scan that starts from the empty map, whatever earlier
\* check or check_line calls left in the instance.
C8_CheckStartsFromEmptyMap ==
    call.op = "check" =>
        /\ rule = "UnterminatedBlockRule" =>
               LET fresh == UnterminatedBlockRule_loop(StrDocument(call.document), 0,
                                                       EmptyDict, <<>>) IN
               result = fresh.findings /\ ub_open_blocks = fresh.open_blocks
        /\ rule = "BlockSpacingRule" =>
               LET fresh == BlockSpacingRule_loop(StrDocument(call.document), 0,
                                                  EmptyDict, <<>>) IN
               result = fresh.findings /\ bs_open_blocks = fresh.open_blocks

\* C8 witness: check ran on an instance whose map still held a marker of the very
\* document being checked (left open by an earlier call), and reported a finding.
C8_Witness ==
    /\ call.op = "check"
    /\ \E m \in DOMAIN call.open_before : Occurrences(m, call.document) # {}
    /\ result # <<>>

\* C9: in UnterminatedBlockRule.check, a marker that occurs on exactly one line of
\* the document gets exactly one finding, an ERROR positioned at that line (1-based);
\* and no finding is positioned at a delimiter line that has a matching later line.
C9_OneFindingPerUnmatchedMarker ==
    (rule = "UnterminatedBlockRule" /\ call.op = "check") =>
        /\ \A m \in DOMAIN block_markers :
               Cardinality(Occurrences(m, call.document)) = 1 =>
                   /\ Cardinality(FindingsFor(m, result)) = 1
                   /\ \A j \in FindingsFor(m, result) :
                          /\ result[j].severity = ERROR
                          /\ {result[j].position.line} = Occurrences(m, call.document)
                          /\ result[j].message = "Unterminated " \o block_markers[m] \o " starting"
        /\ \A i \in 1..Len(call.document) :
               (\E k \in (i + 1)..Len(call.document) :
                    /\ strip(call.document[k]) = strip(call.document[i])
                    /\ strip(call.document[i]) \in DOMAIN block_markers)
               => \A j \in 1..Len(result) : result[j].position.line # i

\* C9 witness: a document whose only "----" delimiter (written with leading space)
\* is not on the first line, checked and reported at its own line.
C9_Witness ==
    /\ rule = "UnterminatedBlockRule"
    /\ call.op = "check"
    /\ call.document = <<"text", "====", " ----", "====">>
    /\ Len(result) = 1
    /\ result[1].position.line = 3

\* C10: in UnterminatedBlockRule.check_line a delimiter line with marker m changes
\* only m's entry of the open-block map: it removes m when m is open and records m
\* (at this line number) otherwise; every other entry, and the whole map on a
\* non-delimiter line, is left as it was.  Hence in check a marker occurring an even
\* number of times is closed at the end, and a document in which every marker
\* occurs an even number of times yields no findings, nested or interleaved.
C10_DelimiterTouchesOnlyItsMarker ==
    /\ (rule = "UnterminatedBlockRule" /\ call.op = "check_line") =>
           LET m == strip(call.document[call.line_num + 1])
               before == call.open_before
               after == ub_open_blocks
           IN /\ \A k \in (DOMAIN block_markers) \ {m} :
                     /\ k \in DOMAIN after <=> k \in DOMAIN before
                     /\ k \in DOMAIN before => after[k] = before[k]
              /\ m \in DOMAIN block_markers =>
                     /\ m \in DOMAIN after <=> m \notin DOMAIN before
                     /\ m \in DOMAIN after => after[m] = call.line_num
              /\ DOMAIN after \subseteq DOMAIN block_markers
    /\ (rule = "UnterminatedBlockRule" /\ call.op = "check") =>
           /\ \A m \in DOMAIN block_markers :
                  Cardinality(Occurrences(m, call.document)) % 2 = 0
                      => m \notin DOMAIN ub_open_blocks
           /\ (\A m \in DOMAIN block_markers :
                  Cardinality(Occurrences(m, call.document)) % 2 = 0) => result = <<>>

\* C10 witness: a delimiter closes its own marker while a different marker is open.
C10_Witness ==
    /\ rule = "UnterminatedBlockRule"
    /\ call.op = "check_line"
    /\ LET m == strip(call.document[call.line_num + 1]) IN
       /\ m \in DOMAIN call.open_before
       /\ DOMAIN ub_open_blocks = (DOMAIN call.open_before) \ {m}
       /\ ub_open_blocks # EmptyDict

(***************************************************************************)
(* Properties of WhitespaceRule (SpecWhitespace).                          *)
(***************************************************************************)
\* C7: when one WhitespaceRule instance checks a document after another, the
\* findings for the later document equal those a fresh instance (counter 0)
\* produces for it alone.
C7_SecondCheckAsIfFresh ==
    (rule = "WhitespaceRule" /\ call.op = "check") =>
        result = WhitespaceRule_check(StrDocument(call.document), 0).findings

(***************************************************************************)
(* The table rules, each called directly with a list of lines as in        *)
(* tests/rules/test_table_rules.py and tests/test_table_rules.py: rows of  *)
(* one, two and three cells, a list in a plain cell, a list after an "a|", *)
(* a blank line, and the table marker bare and indented.                   *)
(***************************************************************************)
TableLines == {"|===", " |===", "|x", "|* i |x", "| x | a| * i", ""}

TableDocuments == SeqsUpTo(TableLines, MaxTableLines)

InitTable ==
    /\ rule \in {"TableFormatRule", "TableStructureRule", "TableContentRule"}
    /\ ub_open_blocks = EmptyDict
    /\ bs_open_blocks = EmptyDict
    /\ consecutive_empty_lines = 0
    /\ call = Idle
    /\ result = <<>>
    /\ NoMain

TableFormatRule_extract_table_lines_call ==
    /\ rule = "TableFormatRule"
    /\ call = Idle
    /\ \E lines \in TableDocuments :
           /\ result' = extract_table_lines(lines)
           /\ call' = [op |-> "extract_table_lines", document |-> lines]
    /\ UNCHANGED <<rule, ub_open_blocks, bs_open_blocks, consecutive_empty_lines, mainVars>>

TableStructureRule_check_call ==
    /\ rule = "TableStructureRule"
    /\ call = Idle
    /\ \E lines \in TableDocuments :
           /\ result' = TableStructureRule_check(StrDocument(lines))
           /\ call' = [op |-> "check", document |-> lines]
    /\ UNCHANGED <<rule, ub_open_blocks, bs_open_blocks, consecutive_empty_lines, mainVars>>

TableContentRule_extract_cells_call ==
    /\ rule = "TableContentRule"
    /\ call = Idle
    /\ \E line \in TableLines :
           /\ result' = extract_cells(line)
           /\ call' = [op |-> "extract_cells", line |-> line]
    /\ UNCHANGED <<rule, ub_open_blocks, bs_open_blocks, consecutive_empty_lines, mainVars>>

TableContentRule_check_call ==
    /\ rule = "TableContentRule"
    /\ call = Idle
    /\ \E lines \in TableDocuments :
           /\ result' = TableContentRule_check(StrDocument(lines))
           /\ call' = [op |-> "check", document |-> lines]
    /\ UNCHANGED <<rule, ub_open_blocks, bs_open_blocks, consecutive_empty_lines, mainVars>>

\* the table regions handed to the checks are those extract_table_lines returns
TableFormatRule_check_column_alignment_call ==
    /\ rule = "TableFormatRule"
    /\ call = Idle
    /\ \E lines \in TableDocuments : \E tables \in {extract_table_lines(lines)} :
           \E t \in 1..Len(tables) :
               /\ result' = check_column_alignment(tables[t])
               /\ call' = [op |-> "check_column_alignment", table_lines |-> tables[t]]
    /\ UNCHANGED <<rule, ub_open_blocks, bs_open_blocks, consecutive_empty_lines, mainVars>>

TableFormatRule_check_header_separator_call ==
    /\ rule = "TableFormatRule"
    /\ call = Idle
    /\ \E lines \in TableDocuments : \E tables \in {extract_table_lines(lines)} :
           \E t \in 1..Len(tables) :
               /\ result' = check_header_separator(tables[t])
               /\ call' = [op |-> "check_header_separator", table_lines |-> tables[t]]
    /\ UNCHANGED <<rule, ub_open_blocks, bs_open_blocks, consecutive_empty_lines, mainVars>>

TableFormatRule_check_call ==
    /\ rule = "TableFormatRule"
    /\ call = Idle
    /\ \E lines \in TableDocuments :
           /\ result' = TableFormatRule_check(StrDocument(lines))
           /\ call' = [op |-> "check", document |-> lines]
    /\ UNCHANGED <<rule, ub_open_blocks, bs_open_blocks, consecutive_empty_lines, mainVars>>

NextTable ==
    \/ TableFormatRule_extract_table_lines_call
    \/ TableFormatRule_check_column_alignment_call
    \/ TableFormatRule_check_header_separator_call
    \/ TableFormatRule_check_call
    \/ TableStructureRule_check_call
    \/ TableContentRule_extract_cells_call
    \/ TableContentRule_check_call
    \/ Return

SpecTable == InitTable /\ [][NextTable]_vars

(***************************************************************************)
(* Properties of the table rules, under SpecTable.                         *)
(***************************************************************************)
\* C11: for every closed table with content rows, TableStructureRule.check
\* yields no finding for the table when all its content rows have the same
\* number of "|"-delimited cells, and otherwise exactly one finding for it: an
\* ERROR at the first divergent row naming the expected and the found count.
C11_OneFindingPerInconsistentTable ==
    (rule = "TableStructureRule" /\ call.op = "check") =>
        LET tables == extract_table_lines(call.document)
            Cells(row) == Cardinality({i \in 1..Len(row) : Char(row, i) = "|"})
        IN \A t \in 1..Len(tables) :
             LET table == tables[t]
                 last == table[Len(table)]
                 rows == {k \in 2..(Len(table) - 1) : contains(table[k][2], "|")}
                 first == CHOOSE k \in rows : \A j \in rows : k <= j
                 differ == {k \in rows : Cells(table[k][2]) # Cells(table[first][2])}
                 divergent == CHOOSE k \in differ : \A j \in differ : k <= j
                 found == {j \in 1..Len(result) :
                              /\ result[j].position.line >= table[1][1] + 1
                              /\ result[j].position.line <= last[1] + 1}
             IN (Len(table) >= 2 /\ strip(last[2]) = "|===" /\ rows # {}) =>
                    IF differ = {} THEN found = {}
                    ELSE /\ Cardinality(found) = 1
                         /\ \A j \in found :
                              /\ result[j].severity = ERROR
                              /\ result[j].position.line = table[divergent][1] + 1
                              /\ result[j].message =
                                     "Inconsistent column count. Expected "
                                         \o ToString(Cells(table[first][2])) \o ", found "
                                         \o ToString(Cells(table[divergent][2]))

\* C17: for a document with k lines that strip to "|===", extract_table_lines
\* returns ceil(k/2) regions in document order; region j is exactly the lines
\* from the (2j-1)-th marker through the (2j)-th, or through the end of the
\* document when there is no (2j)-th, each with its 0-based line number.
C17_RegionsBetweenMarkerPairs ==
    (rule = "TableFormatRule" /\ call.op = "extract_table_lines") =>
        LET lines == call.document
            markers == {i \in 1..Len(lines) : strip(lines[i]) = "|==="}
            k == Cardinality(markers)
            Marker(n) == CHOOSE i \in markers : Cardinality({m \in markers : m <= i}) = n
            From(j) == Marker(2 * j - 1)
            To(j) == IF 2 * j <= k THEN Marker(2 * j) ELSE Len(lines)
        IN /\ Len(result) = (k + 1) \div 2
           /\ \A j \in 1..Len(result) :
                  result[j] = [n \in 1..(To(j) - From(j) + 1) |->
                                  <<From(j) + n - 2, lines[From(j) + n - 1]>>]

\* a closed table, then an unclosed one, with a line before them and the
\* indented form of the marker
C17_Witness ==
    /\ rule = "TableFormatRule"
    /\ call.op = "extract_table_lines"
    /\ Len(call.document) = 5
    /\ strip(call.document[1]) # "|==="
    /\ call.document[3] = " |==="
    /\ Len(result) = 2
    /\ Len(result[1]) = 2
    /\ Len(result[2]) = 2
    /\ result[2][2][2] = "|x"

\* C18: in a closed table, a row gets a 'List in table cell' WARNING exactly
\* when one of its cells starts with a list marker ("*" or "-") and is not
\* declared by an "a" or "l" immediately before its "|"; and extract_cells
\* reports a cell declared in that way as (prefix, content).
C18_ListNeedsDeclarationBeforeBar ==
    LET Parts(row) == split(row, "|")
        IsList(part) == lstrip(part) # "" /\ Char(lstrip(part), 1) \in {"*", "-"}
        Declared(row, k) ==
            Parts(row)[k - 1] # ""
                /\ Char(Parts(row)[k - 1], Len(Parts(row)[k - 1])) \in {"a", "l"}
    IN /\ (rule = "TableContentRule" /\ call.op = "check") =>
              LET tables == extract_table_lines(call.document) IN
              \A t \in 1..Len(tables) :
                  (Len(tables[t]) >= 2 /\ strip(tables[t][Len(tables[t])][2]) = "|===") =>
                      \A r \in 2..(Len(tables[t]) - 1) :
                          LET row == tables[t][r][2]
                              found == {j \in 1..Len(result) :
                                           result[j].position.line = tables[t][r][1] + 1}
                              undeclared == \E k \in 2..Len(Parts(row)) :
                                                IsList(Parts(row)[k]) /\ ~Declared(row, k)
                          IN IF undeclared
                             THEN /\ Cardinality(found) = 1
                                  /\ \A j \in found :
                                         /\ result[j].severity = WARNING
                                         /\ startswith(result[j].message, "List in table cell")
                             ELSE found = {}
       /\ (rule = "TableContentRule" /\ call.op = "extract_cells") =>
              \A k \in 2..Len(Parts(call.line)) :
                  (IsList(Parts(call.line)[k]) /\ Declared(call.line, k)) =>
                      \E c \in 1..Len(result) :
                          result[c] = <<Char(Parts(call.line)[k - 1], Len(Parts(call.line)[k - 1])),
                                        strip(Parts(call.line)[k])>>

\* C19: an undeclared list whose items stand in the same column of consecutive
\* rows of one table is reported by exactly one finding for the table.
C19_OneFindingPerListAcrossRows ==
    (rule = "TableContentRule" /\ call.op = "check") =>
        LET tables == extract_table_lines(call.document)
            FirstCell(row) == strip(split(row, "|")[2])
            IsItem(row) == contains(row, "|") /\ FirstCell(row) # ""
                               /\ Char(FirstCell(row), 1) \in {"*", "-"}
        IN \A t \in 1..Len(tables) :
               \* the table is the marker, rows that all begin with an item, the marker
               (/\ Len(tables[t]) >= 4
                /\ strip(tables[t][Len(tables[t])][2]) = "|==="
                /\ \A r \in 2..(Len(tables[t]) - 1) : IsItem(tables[t][r][2])) =>
                   Cardinality({j \in 1..Len(result) :
                                   /\ result[j].position.line > tables[t][1][1] + 1
                                   /\ result[j].position.line <= tables[t][Len(tables[t])][1]}) = 1

(***************************************************************************)
(* The heading rules, each called directly with a list of lines as in      *)
(* tests/rules/test_heading_rules.py: headings of levels 1 to 3, one in    *)
(* lower case with a trailing blank, "=" runs without a space after them,  *)
(* a line of "=" only, and a line of text.  UnterminatedBlockRule is       *)
(* called on its own documents, where "====" is a block delimiter.         *)
(***************************************************************************)
HeadingLines == {"= A", "= b ", "== B", "=== C", "==sub", "====", "text"}

HeadingDocuments == SeqsUpTo(HeadingLines, MaxHeadingLines)

InitHeading ==
    /\ rule \in {"HeadingFormatRule", "HeadingHierarchyRule", "MultipleTopLevelHeadingsRule",
                 "UnterminatedBlockRule"}
    /\ ub_open_blocks = EmptyDict
    /\ bs_open_blocks = EmptyDict
    /\ consecutive_empty_lines = 0
    /\ call = Idle
    /\ result = <<>>
    /\ NoMain

HeadingFormatRule_check_call ==
    /\ rule = "HeadingFormatRule"
    /\ call = Idle
    /\ \E lines \in HeadingDocuments :
           /\ result' = HeadingFormatRule_check(StrDocument(lines))
           /\ call' = [op |-> "check", document |-> lines]
    /\ UNCHANGED <<rule, ub_open_blocks, bs_open_blocks, consecutive_empty_lines, mainVars>>

HeadingHierarchyRule_check_call ==
    /\ rule = "HeadingHierarchyRule"
    /\ call = Idle
    /\ \E lines \in HeadingDocuments :
           /\ result' = HeadingHierarchyRule_check(StrDocument(lines))
           /\ call' = [op |-> "check", document |-> lines]
    /\ UNCHANGED <<rule, ub_open_blocks, bs_open_blocks, consecutive_empty_lines, mainVars>>

HeadingHierarchyRule_get_heading_levels_call ==
    /\ rule = "HeadingHierarchyRule"
    /\ call = Idle
    /\ \E lines \in HeadingDocuments :
           /\ result' = get_heading_levels(StrDocument(lines), 0)
           /\ call' = [op |-> "get_heading_levels", document |-> lines]
    /\ UNCHANGED <<rule, ub_open_blocks, bs_open_blocks, consecutive_empty_lines, mainVars>>

MultipleTopLevelHeadingsRule_check_call ==
    /\ rule = "MultipleTopLevelHeadingsRule"
    /\ call = Idle
    /\ \E lines \in HeadingDocuments :
           /\ result' = MultipleTopLevelHeadingsRule_check(StrDocument(lines))
           /\ call' = [op |-> "check", document |-> lines]
    /\ UNCHANGED <<rule, ub_open_blocks, bs_open_blocks, consecutive_empty_lines, mainVars>>

NextHeading ==
    \/ HeadingFormatRule_check_call
    \/ HeadingHierarchyRule_check_call
    \/ HeadingHierarchyRule_get_heading_levels_call
    \/ MultipleTopLevelHeadingsRule_check_call
    \/ UnterminatedBlockRule_check_call
    \/ Return

SpecHeading == InitHeading /\ [][NextHeading]_vars

C13_EveryLaterTopLevelHeadingFlagged ==
    (rule = "MultipleTopLevelHeadingsRule" /\ call.op = "check") =>
        LET lines == call.document
            tops == {i \in 1..Len(lines) :
                        Len(lines[i]) >= 2 /\ Char(lines[i], 1) = "="
                            /\ isspace(Char(lines[i], 2))}
            n == Cardinality(tops)
            first == CHOOSE i \in tops : \A j \in tops : i <= j
        IN /\ Len(result) = IF n = 0 THEN 0 ELSE n - 1
           /\ \A j \in 1..Len(result) :
                  /\ result[j].position.line \in tops \ {first}
                  /\ result[j].severity = ERROR
                  /\ result[j].context = lines[result[j].position.line]
                  /\ result[j].message =
                         "Multiple top-level headings found. First heading at line "
                             \o ToString(first) \o ": '" \o strip(lines[first]) \o "'"
           /\ \A j \in 1..(Len(result) - 1) :
                  result[j].position.line < result[j + 1].position.line

\* three level-1 headings, the first after a line of text and unlike the others
C13_Witness ==
    /\ rule = "MultipleTopLevelHeadingsRule"
    /\ call.op = "check"
    /\ call.document = <<"text", "= b ", "= A", "= A">>
    /\ Len(result) = 2
    /\ result[2].position.line = 4
    /\ result[2].message = "Multiple top-level headings found. First heading at line 2: '= b'"

\* C14: HeadingFormatRule.check gives a line that starts with "=" a 'Missing
\* space' ERROR exactly when its "=" run is not immediately followed by
\* whitespace and, independently, an 'uppercase' WARNING exactly when the text
\* after the run is not empty and begins with a lowercase letter; these are
\* the line's only findings, and a line not starting with "=" has none.
C14_SpaceAndCaseFindings ==
    (rule = "HeadingFormatRule" /\ call.op = "check") =>
        \A i \in 1..Len(call.document) :
            LET line == call.document[i]
                n == count_leading(line, "=")
                missing == n >= 1 /\ (Len(line) = n \/ ~isspace(Char(line, n + 1)))
                text == lstrip(SubSeq(line, n + 1, Len(line)))
                lower == n >= 1 /\ text # "" /\ islower(Char(text, 1))
                found == {j \in 1..Len(result) : result[j].position.line = i}
                errors == {j \in found : /\ result[j].severity = ERROR
                                         /\ startswith(result[j].message, "Missing space")}
                warnings == {j \in found : /\ result[j].severity = WARNING
                                           /\ result[j].message =
                                                  "Heading should start with uppercase letter"}
            IN /\ found = errors \cup warnings
               /\ Cardinality(errors) = IF missing THEN 1 ELSE 0
               /\ Cardinality(warnings) = IF lower THEN 1 ELSE 0

\* "==sub" has both findings, "= b " only the warning, "= A" and "text" none
C14_Witness ==
    /\ rule = "HeadingFormatRule"
    /\ call.op = "check"
    /\ call.document = <<"==sub", "= b ", "= A", "text">>
    /\ Len(result) = 3
    /\ result[1].severity = ERROR
    /\ result[2].position.line = 1
    /\ result[3].position.line = 2
    /\ result[3].severity = WARNING

\* C15: HeadingHierarchyRule counts a line as a heading of level n exactly when
\* the line starts with n "=" immediately followed by a character other than
\* "=", and never counts a line made of "=" only.
C15_HeadingLevelIsEqualsRun ==
    (rule = "HeadingHierarchyRule" /\ call.op = "get_heading_levels") =>
        LET lines == call.document
            heading_level(line) == IF count_leading(line, "=") = Len(line) THEN 0
                                   ELSE count_leading(line, "=")
        IN {<<result[j].line_num + 1, result[j].level>> : j \in 1..Len(result)}
               = {<<i, heading_level(lines[i])>> :
                      i \in {h \in 1..Len(lines) : heading_level(lines[h]) > 0}}

\* C16: a line made of "=" only is never treated as a heading:
\* HeadingFormatRule.check has no finding at such a line, while
\* UnterminatedBlockRule.check still takes "====" for a block delimiter and
\* reports the one that opens a block no later "====" closes.
C16_EqualsOnlyLineIsNoHeading ==
    /\ (rule = "HeadingFormatRule" /\ call.op = "check") =>
           \A i \in 1..Len(call.document) :
               (call.document[i] # ""
                    /\ count_leading(call.document[i], "=") = Len(call.document[i])) =>
                   \A j \in 1..Len(result) : result[j].position.line # i
    /\ (rule = "UnterminatedBlockRule" /\ call.op = "check") =>
           LET delimiters == {i \in 1..Len(call.document) : strip(call.document[i]) = "===="}
               last == CHOOSE i \in delimiters : \A d \in delimiters : d <= i
           IN Cardinality(delimiters) % 2 = 1 =>
                  \E j \in 1..Len(result) :
                      /\ result[j].position.line = last
                      /\ startswith(result[j].message, "Unterminated example block")

(***************************************************************************)
(* Properties of BlockSpacingRule, under SpecBlock.                        *)
(***************************************************************************)
\* C20: BlockSpacingRule.check has a 'preceded by a blank line' WARNING at an
\* opening delimiter exactly when a preceding non-delimiter line exists and is
\* neither blank nor a heading line, and a 'followed by a blank line' WARNING
\* for a closing delimiter exactly when a following non-delimiter line exists
\* and is neither blank nor a heading line; it has no other finding.  Where the
\* line next to the delimiter is itself a delimiter, the nearest non-delimiter
\* line beyond it may or may not count, but a warning needs one to exist.
C20_SpacingWarningIffNeighbourIsText ==
    (rule = "BlockSpacingRule" /\ call.op = "check") =>
        LET lines == call.document
            N == Len(lines)
            Marker(i) == strip(lines[i]) \in spacing_block_markers
            Earlier(i) == {h \in 1..(i - 1) : strip(lines[h]) = strip(lines[i])}
            Opening(i) == Marker(i) /\ Cardinality(Earlier(i)) % 2 = 0
            Closing(i) == Marker(i) /\ Cardinality(Earlier(i)) % 2 = 1
            Offends(i) == strip(lines[i]) # "" /\ ~startswith(strip(lines[i]), "=")
            Before(i) == {h \in 1..(i - 1) : ~Marker(h)}
            After(i) == {h \in (i + 1)..N : ~Marker(h)}
            Previous(i) == CHOOSE h \in Before(i) : \A g \in Before(i) : g <= h
            Following(i) == CHOOSE h \in After(i) : \A g \in After(i) : h <= g
            preceded == {j \in 1..Len(result) :
                            /\ result[j].message = "Block should be preceded by a blank line"
                            /\ result[j].severity = WARNING}
            followed == {j \in 1..Len(result) :
                            /\ result[j].message = "Block should be followed by a blank line"
                            /\ result[j].severity = WARNING}
        IN /\ preceded \cup followed = 1..Len(result)
           /\ \A j \in preceded : Opening(result[j].position.line)
           /\ \A j \in followed : Closing(result[j].position.line - 1)
           /\ \A i \in 1..N :
                  /\ Opening(i) =>
                         /\ (\E j \in preceded : result[j].position.line = i)
                                => (Before(i) # {} /\ Offends(Previous(i)))
                         /\ (i > 1 /\ ~Marker(i - 1) /\ Offends(i - 1))
                                => Cardinality({j \in preceded : result[j].position.line = i}) = 1
                  /\ Closing(i) =>
                         /\ (\E j \in followed : result[j].position.line = i + 1)
                                => (After(i) # {} /\ Offends(Following(i)))
                         /\ (i < N /\ ~Marker(i + 1) /\ Offends(i + 1))
                                => Cardinality({j \in followed :
                                                   result[j].position.line = i + 1}) = 1

(***************************************************************************)
(* Properties of the report, under Spec.                                   *)
(***************************************************************************)
\* C21: grouped_findings partitions the report by file: the groups have
\* different files (None for a finding without a file), every group holds
\* exactly the findings of its file in report order, every finding is in a
\* group, the groups are in the order in which their files first appear, and
\* an empty report has no group.
C21_GroupedFindingsPartitionByFile ==
    (rule = "AsciiDocLinter" /\ call.op = "grouped_findings") =>
        LET findings == call.findings
            File(i) == IF "file" \in DOMAIN findings[i] THEN findings[i].file ELSE None
            Of(file) == {i \in 1..Len(findings) : File(i) = file}
            Nth(S, n) == CHOOSE i \in S : Cardinality({h \in S : h <= i}) = n
            First(file) == Nth(Of(file), 1)
        IN /\ {result[k].file : k \in 1..Len(result)} = {File(i) : i \in 1..Len(findings)}
           /\ \A k, l \in 1..Len(result) :
                  k < l => (/\ result[k].file # result[l].file
                            /\ First(result[k].file) < First(result[l].file))
           /\ \A k \in 1..Len(result) :
                  result[k].findings =
                      [n \in 1..Cardinality(Of(result[k].file)) |->
                          findings[Nth(Of(result[k].file), n)]]
           /\ (findings = <<>> => result = <<>>)

\* two files and no file, the first file met again after the others
C21_Witness ==
    /\ rule = "AsciiDocLinter"
    /\ call.op = "grouped_findings"
    /\ Len(call.findings) = 4
    /\ Len(result) = 3
    /\ result[1].file = "a.adoc"
    /\ result[2].file = None
    /\ result[3].file = "b.adoc"
    /\ Len(result[1].findings) = 2
    /\ call.findings[4] = result[1].findings[2]
    /\ result[1].findings[1] # result[1].findings[2]

C23_OneAlignmentFindingAtFirstDeviation ==
    (rule = "TableFormatRule" /\ call.op = "check_column_alignment") =>
        LET T == call.table_lines
            closed == Len(T) >= 2 /\ strip(T[Len(T)][2]) = "|==="
            body == SubSeq(T, 2, IF closed THEN Len(T) - 1 ELSE Len(T))
            offsets(line) == {k \in 1..Len(line) : Char(line, k) = "|"}
            nonblank == {i \in 1..Len(body) : strip(body[i][2]) # ""}
            first == CHOOSE i \in nonblank : \A j \in nonblank : i <= j
            deviating == {i \in nonblank : offsets(body[i][2]) # offsets(body[first][2])}
            earliest == CHOOSE i \in deviating : \A j \in deviating : i <= j
        IN /\ Len(result) <= 1
           /\ (result = <<>>) <=> (deviating = {})
           /\ result # <<>> /\ deviating # {} =>
                  /\ result[1].severity = WARNING
                  /\ result[1].position.line = body[earliest][1] + 1

\* C24: check_header_separator takes the first body row with a "|" as the
\* header; it returns exactly one WARNING, at the row following the header,
\* when that row is a body row of the table and is not blank, and nothing
\* otherwise.
C24_OneHeaderFindingIffNextRowNotBlank ==
    (rule = "TableFormatRule" /\ call.op = "check_header_separator") =>
        LET T == call.table_lines
            closed == Len(T) >= 2 /\ strip(T[Len(T)][2]) = "|==="
            body == SubSeq(T, 2, IF closed THEN Len(T) - 1 ELSE Len(T))
            with_bar == {i \in 1..Len(body) : contains(body[i][2], "|")}
            header == CHOOSE i \in with_bar : \A j \in with_bar : i <= j
            due == with_bar # {} /\ header + 1 <= Len(body)
                   /\ strip(body[header + 1][2]) # ""
        IN /\ Len(result) <= 1
           /\ (Len(result) = 1) <=> due
           /\ Len(result) = 1 /\ due =>
                  /\ result[1].severity = WARNING
                  /\ result[1].position.line = body[header + 1][1] + 1

\* C25: for every table region of the document, TableStructureRule.check
\* yields, when the region has no content row (a body row with a "|"),
\* exactly one finding in the region, the WARNING "Empty table" at the opening
\* line, and, when it has a content row, no "Empty table" for it.
C25_EmptyTableIffNoContentRow ==
    (rule = "TableStructureRule" /\ call.op = "check") =>
        LET tables == extract_table_lines(call.document) IN
        \A t \in 1..Len(tables) :
            LET T == tables[t]
                closed == Len(T) >= 2 /\ strip(T[Len(T)][2]) = "|==="
                body == SubSeq(T, 2, IF closed THEN Len(T) - 1 ELSE Len(T))
                content_rows == {i \in 1..Len(body) : contains(body[i][2], "|")}
                here == {k \in 1..Len(result) :
                            \E i \in 1..Len(T) : result[k].position.line = T[i][1] + 1}
            IN IF content_rows = {}
               THEN /\ Cardinality(here) = 1
                    /\ \A k \in here :
                           /\ result[k].message = "Empty table"
                           /\ result[k].severity = WARNING
                           /\ result[k].position.line = T[1][1] + 1
               ELSE \A k \in here : result[k].message # "Empty table"

\* C29: on a document that ends inside a table, the check of each table rule
\* returns what it returns on the same document with a closing "|===" line
\* added at the end.
C29_UnclosedTableCheckedAsIfClosed ==
    (rule \in {"TableFormatRule", "TableStructureRule", "TableContentRule"}
        /\ call.op = "check") =>
        LET tables == extract_table_lines(call.document)
            last == tables[Len(tables)]
            unclosed == tables # <<>>
                        /\ ~(Len(last) >= 2 /\ strip(last[Len(last)][2]) = "|===")
            check(lines) ==
                IF rule = "TableFormatRule" THEN TableFormatRule_check(StrDocument(lines))
                ELSE IF rule = "TableStructureRule"
                     THEN TableStructureRule_check(StrDocument(lines))
                     ELSE TableContentRule_check(StrDocument(lines))
        IN unclosed => result = check(Append(call.document, "|==="))

(***************************************************************************)
(* Properties of the blank-line counter, under SpecWhitespace.             *)
(***************************************************************************)
\* C26: when a WhitespaceRule whose counter is 0 checks a document, every
\* maximal run of blank lines gets one "Too many consecutive empty lines"
\* finding at each of its lines from the third on and none at its first two
\* (max(0, k - 2) for a run of k), a non-blank line gets none, and the counter
\* is 0 after every non-blank line.
C26_BlankRunFindingsFromThirdLine ==
    /\ (rule = "WhitespaceRule" /\ call.op = "check" /\ call.counter_before = 0) =>
           LET lines == call.document
               blank(i) == strip(lines[i]) = ""
               run_start(i) == CHOOSE a \in 1..i :
                                   /\ \A j \in a..i : blank(j)
                                   /\ a = 1 \/ ~blank(a - 1)
               too_many(l) == Cardinality({k \in 1..Len(result) :
                                  /\ result[k].message = "Too many consecutive empty lines"
                                  /\ result[k].position.line = l})
           IN \A l \in 1..Len(lines) :
                  /\ blank(l) => too_many(l) = (IF l >= run_start(l) + 2 THEN 1 ELSE 0)
                  /\ ~blank(l) =>
                         /\ too_many(l) = 0
                         /\ WhitespaceRule_check(StrDocument(SubSeq(lines, 1, l)), 0).counter = 0
    /\ (rule = "WhitespaceRule" /\ call.op = "check_line"
            /\ strip(call.document[call.line_num + 1]) # "") =>
           consecutive_empty_lines = 0

\* a fresh rule has checked three blank lines and a line of text
C26_Witness ==
    /\ rule = "WhitespaceRule"
    /\ call.op = "check"
    /\ call.counter_before = 0
    /\ call.document = <<"", " ", "", "text">>
    /\ Len(result) = 2
    /\ result[2].message = "Too many consecutive empty lines"
    /\ result[2].position.line = 3
    /\ consecutive_empty_lines = 0

(***************************************************************************)
(* Properties of ImageAttributesRule._parse_attributes, under Spec.        *)
(***************************************************************************)
\* C27: _parse_attributes cuts the attribute string at the commas that have an
\* even number of double quotes before them and nowhere else; every part with
\* a "=" gives the key before the first "=" the value after it, stripped of
\* blanks and of surrounding double quotes; the first part without "=",
\* wherever it stands in the list, is the value of "alt"; without such a part
\* there is no "alt".
C27_PartsOutsideQuotesAndFirstBareAlt ==
    (rule = "AsciiDocLinter" /\ call.op = "_parse_attributes") =>
        LET s == call.attr_string
            quotes_before(k) == Cardinality({j \in 1..(k - 1) : Char(s, j) = "\""})
            cuts == {k \in 1..Len(s) : Char(s, k) = "," /\ quotes_before(k) % 2 = 0}
            starts == {1} \cup {k + 1 : k \in cuts}
            end(a) == IF \E k \in cuts : k >= a
                      THEN (CHOOSE k \in cuts : k >= a /\ \A j \in cuts : j >= a => k <= j) - 1
                      ELSE Len(s)
            part(a) == strip(SubSeq(s, a, end(a)))
            keyed == {a \in starts : contains(part(a), "=")}
            bare == {a \in starts : part(a) # "" /\ ~contains(part(a), "=")}
            key(a) == strip(SubSeq(part(a), 1, find(part(a), "=") - 1))
            value(a) == strip_chars(strip(SubSeq(part(a), find(part(a), "=") + 1,
                                                 Len(part(a)))), {"\""})
        IN /\ DOMAIN result \ {"alt"} = {key(a) : a \in keyed}
           /\ \A a \in keyed : (\A b \in keyed : key(b) = key(a) => b <= a) =>
                  result[key(a)] = value(a)
           /\ IF bare = {} THEN "alt" \notin DOMAIN result
              ELSE /\ "alt" \in DOMAIN result
                   /\ result["alt"] = part(CHOOSE a \in bare : \A b \in bare : a <= b)

(***************************************************************************)
(* Parity of the block markers, under SpecBlock.                           *)
(***************************************************************************)
\* C28: UnterminatedBlockRule.check yields for every marker exactly one
\* finding, at the marker's last line, when the marker occurs an odd number of
\* times in the document, and none when it occurs an even number of times;
\* there are no other findings and they come in ascending line order; after
\* any prefix of the document the open-block map holds exactly the markers
\* that occur an odd number of times in the prefix.
C28_FindingIffOddAtLastOccurrence ==
    (rule = "UnterminatedBlockRule" /\ call.op = "check") =>
        LET lines == call.document
            stripped == [i \in 1..Len(lines) |-> strip(lines[i])]
            present == {stripped[i] : i \in 1..Len(lines)} \cap DOMAIN block_markers
            occurrences(m, n) == {i \in 1..n : stripped[i] = m}
            odd(m, n) == Cardinality(occurrences(m, n)) % 2 = 1
        IN /\ \A m \in present :
                  IF odd(m, Len(lines))
                  THEN /\ Cardinality(FindingsFor(m, result)) = 1
                       /\ \A j \in FindingsFor(m, result) :
                              \A i \in occurrences(m, Len(lines)) :
                                  result[j].position.line >= i
                  ELSE FindingsFor(m, result) = {}
           /\ \A j \in 1..Len(result) :
                  /\ strip(result[j].context) \in present
                  /\ result[j].position.line
                         \in occurrences(strip(result[j].context), Len(lines))
                  /\ j > 1 => result[j - 1].position.line < result[j].position.line
           /\ \A n \in 0..(Len(lines) - 1) :
                  DOMAIN UnterminatedBlockRule_check(StrDocument(SubSeq(lines, 1, n)),
                                                     call.open_before).open_blocks
                      = {m \in present : odd(m, n)}
           /\ DOMAIN ub_open_blocks = {m \in present : odd(m, Len(lines))}

\* a marker occurs three times: one finding, at its third line, and the marker
\* is left open
C28_Witness ==
    /\ rule = "UnterminatedBlockRule"
    /\ call.op = "check"
    /\ call.document = <<"----", "text", " ----", "----">>
    /\ Len(result) = 1
    /\ result[1].position.line = 4
    /\ DOMAIN ub_open_blocks = {"----"}

(***************************************************************************)
(* All rules together: check of each rule class on a list of lines.  Every *)
(* run is the life of one rule instance.                                   *)
(***************************************************************************)
InitRules ==
    /\ rule \in {"HeadingFormatRule", "HeadingHierarchyRule", "MultipleTopLevelHeadingsRule",
                 "UnterminatedBlockRule", "BlockSpacingRule", "WhitespaceRule",
                 "ImageAttributesRule", "TableFormatRule", "TableStructureRule",
                 "TableContentRule"}
    /\ ub_open_blocks = EmptyDict
    /\ bs_open_blocks = EmptyDict
    /\ consecutive_empty_lines = 0
    /\ call = Idle
    /\ result = <<>>
    /\ NoMain

ImageAttributesRule_check_call ==
    /\ rule = "ImageAttributesRule"
    /\ call = Idle
    /\ \E lines \in SeqsUpTo(ContentLines, MaxContentLines) :
           /\ result' = ImageAttributesRule_check(StrDocument(lines))
           /\ call' = [op |-> "check", document |-> lines]
    /\ UNCHANGED <<rule, ub_open_blocks, bs_open_blocks, consecutive_empty_lines, mainVars>>

NextRules ==
    \/ HeadingFormatRule_check_call
    \/ HeadingHierarchyRule_check_call
    \/ MultipleTopLevelHeadingsRule_check_call
    \/ UnterminatedBlockRule_check_call
    \/ BlockSpacingRule_check_call
    \/ WhitespaceRule_check_call
    \/ ImageAttributesRule_check_call
    \/ TableFormatRule_check_call
    \/ TableStructureRule_check_call
    \/ TableContentRule_check_call
    \/ Return

SpecRules == InitRules /\ [][NextRules]_vars

\* C30: every finding that the check of a rule returns for a document of N
\* lines has a position.line from 1 to N; so have the finding reported at the
\* line after a closing delimiter and that reported at the row after a table
\* header.
C30_FindingLineWithinDocument ==
    call.op = "check" =>
        \A j \in 1..Len(result) :
            /\ result[j].position.line >= 1
            /\ result[j].position.line <= Len(call.document)

\* "Block should be followed by a blank line" reported at the last line
C30_Witness ==
    /\ rule = "BlockSpacingRule"
    /\ call.op = "check"
    /\ call.document = <<"----", "----", "text">>
    /\ \E j \in 1..Len(result) :
           /\ result[j].message = "Block should be followed by a blank line"
           /\ result[j].position.line = 3

=============================================================================
